---- MODULE Spec2Model ----
(***************************************************************************)
(* A model of the phone-ui extension (src/index.js, lines 512-1133): the   *)
(* CHARACTER_MESSAGE_RENDERED handler with its restore / first-generation  *)
(* decision, the processedMessages set and its two invalidation listeners, *)
(* and the awaited /imagine and saveChatConditional calls of a pass.       *)
(*                                                                         *)
(* Message text is a sequence of tokens.  "IO" is the marker [IMG], "IC"   *)
(* is [/IMG], "VO" is [VN], "VC" is [/VN], "s" is one whitespace           *)
(* character and every other token is one ordinary character.  "io", "ic", *)
(* "vo" and "vc" are the same markers written in lower case.               *)
(***************************************************************************)
EXTENDS Integers, Sequences, FiniteSets, TLC

VARIABLES
    chat,               \* chat[m]: the message object (flags, mes, extra.phoneMedia)
    processedMessages,  \* the Set of message ids already handled
    rendered,           \* the chat view holds the message elements
    dom,                \* dom[m]: the widgets in the .mes_text of message m
    passes,             \* the suspended invocations of onCharacterMessageRendered
    requests,           \* the awaited external calls that have not settled yet
    genDone,            \* genDone[m]: a first-generation pass over m's content ended
    generated           \* the segments of content the host has generated so far

vars == <<chat, processedMessages, rendered, dom, passes, requests, genDone, generated>>

----------------------------------------------------------------------------
(* Bounds of the model *)

MaxGenerated == 2   \* segments (plain text, tag pair, dangling marker) of
                    \* content the host generates in one behaviour
MaxPasses == 2      \* invocations of the handler suspended at an await at once

\* The chat holds two messages; the messages do not interact except through
\* processedMessages and the two listeners that invalidate it.
MsgIds == {0, 1}
PassIds == 1 .. MaxPasses

----------------------------------------------------------------------------
(* Message texts *)

Segs ==
    { <<"x">>,                  \* ordinary content
      <<"IO", "a", "IC">>,      \* [IMG]a[/IMG]
      <<"IO", "s", "IC">>,      \* [IMG] [/IMG]: empty after trimming
      <<"IO">>,                 \* [IMG] with no close marker
      <<"VO", "v", "VC">>,      \* [VN]v[/VN]
      <<"VO", "s", "VC">> }     \* [VN] [/VN]: empty after trimming

\* the texts of exactly n segments
RECURSIVE TextsOf(_)
TextsOf(n) ==
    IF n = 0 THEN { <<>> }
    ELSE { t \o s : t \in TextsOf(n - 1), s \in Segs }

\* the texts of at most n segments, for every n within the bound
TextsUpTo ==
    [n \in 0 .. MaxGenerated |-> UNION { TextsOf(k) : k \in 0 .. n }]

\* the texts the host can still generate when used segments are spent
Texts(used) == IF used > MaxGenerated THEN {} ELSE TextsUpTo[MaxGenerated - used]

\* the number of segments of a generated text
RECURSIVE SegCount(_)
SegCount(t) ==
    IF t = <<>> THEN 0
    ELSE IF Head(t) \in {"IO", "VO"} /\ Len(t) >= 3 /\ t[3] \in {"IC", "VC"}
         THEN 1 + SegCount(SubSeq(t, 4, Len(t)))
         ELSE 1 + SegCount(Tail(t))

Urls == { "u1" }

----------------------------------------------------------------------------
(* String helpers: String.prototype.trim, RegExp test / matchAll / replace *)

RECURSIVE TrimLeft(_)
TrimLeft(t) ==
    IF t # <<>> /\ Head(t) = "s" THEN TrimLeft(Tail(t)) ELSE t

RECURSIVE TrimRight(_)
TrimRight(t) ==
    IF t # <<>> /\ t[Len(t)] = "s" THEN TrimRight(SubSeq(t, 1, Len(t) - 1)) ELSE t

Trim(t) == TrimRight(TrimLeft(t))

\* the i flag of the regular expressions of lines 516-518, 728, 729 and
\* 967: a marker matches in either case
Upper(tok) ==
    CASE tok = "io" -> "IO"
      [] tok = "ic" -> "IC"
      [] tok = "vo" -> "VO"
      [] tok = "vc" -> "VC"
      [] OTHER -> tok

\* the smallest index >= from at which tok occurs in t, in either case, or 0
IndexFrom(t, tok, from) ==
    LET hits == { i \in from .. Len(t) : Upper(t[i]) = tok }
    IN  IF hits = {} THEN 0 ELSE CHOOSE i \in hits : \A j \in hits : i <= j

\* /\[IMG\]/i.test(t) and /\[VN\]/i.test(t)
HasOpen(t, open) == IndexFrom(t, open, 1) # 0

\* [...t.matchAll(/\[TAG\]\s*([\s\S]*?)\s*\[\/TAG\]/gi)] mapped to m[1].trim():
\* leftmost open marker, lazy capture up to the first close marker after it,
\* then the scan goes on after that close marker.
RECURSIVE MatchAllFrom(_, _, _, _)
MatchAllFrom(t, open, close, pos) ==
    LET o == IndexFrom(t, open, pos)
        c == IF o = 0 THEN 0 ELSE IndexFrom(t, close, o + 1)
    IN  IF o = 0 \/ c = 0 THEN <<>>
        ELSE <<Trim(SubSeq(t, o + 1, c - 1))>> \o MatchAllFrom(t, open, close, c + 1)

\* a variant with a greedy capture: one match, from the first open marker
\* to the last close marker
MatchAll_Greedy(t, open, close) ==
    LET o == IndexFrom(t, open, 1)
        closes == { i \in 1 .. Len(t) : i > o /\ t[i] = close }
    IN  IF o = 0 \/ closes = {} THEN <<>>
        ELSE << Trim(SubSeq(t, o + 1,
                            (CHOOSE c \in closes : \A d \in closes : d <= c) - 1)) >>

MatchAll(t, open, close) == MatchAllFrom(t, open, close, 1)

\* t.replace(/\[TAG\][\s\S]*?\[\/TAG\]/gi, '')
RECURSIVE StripFrom(_, _, _, _)
StripFrom(t, open, close, pos) ==
    LET o == IndexFrom(t, open, pos)
        c == IF o = 0 THEN 0 ELSE IndexFrom(t, close, o + 1)
    IN  IF o = 0 \/ c = 0 THEN SubSeq(t, pos, Len(t))
        ELSE SubSeq(t, pos, o - 1) \o StripFrom(t, open, close, c + 1)

StripPairs(t, open, close) == StripFrom(t, open, close, 1)

----------------------------------------------------------------------------
(* message.extra.phoneMedia: a map from slot keys to records.  The image   *)
(* key i of the source is <<"img", i>> and the key `vn${i}` is <<"vn", i>>.*)
(* An absent phoneMedia and an empty one are the same map here: every read *)
(* of it in the source treats them alike (lines 733, 734, 742, 768).       *)

NoMedia == [k \in {} |-> 0]

Put(pm, k, v) == [x \in (DOMAIN pm) \cup {k} |-> IF x = k THEN v ELSE pm[x]]

\* line 840
ImageRecord(url, prompt) ==
    [type |-> "image", urls |-> <<url>>, prompt |-> prompt, activeIndex |-> 0]

\* line 799
VoiceRecord(text) == [type |-> "voice_note", text |-> text]

\* the slots of one kind in ascending order (Object.entries lists integer
\* keys ascending; the vn keys were inserted in ascending order)
RECURSIVE Ascending(_)
Ascending(S) ==
    IF S = {} THEN <<>>
    ELSE LET lo == CHOOSE i \in S : \A j \in S : i <= j
         IN  <<lo>> \o Ascending(S \ {lo})

SlotsOf(pm, kind) == Ascending({ k[2] : k \in { x \in DOMAIN pm : x[1] = kind } })

----------------------------------------------------------------------------
(* The decision of onCharacterMessageRendered *)

hasImgTags(mes) == HasOpen(mes, "IO")
hasVnTags(mes) == HasOpen(mes, "VO")
hasVnMedia(pm) == \E k \in DOMAIN pm : k[1] = "vn"
imgNeedsGen(mes) == hasImgTags(mes)

\* a variant that asks for generation whenever a voice tag is in the text
vnNeedsGen_IgnoringRecords(mes, pm) == hasVnTags(mes)

vnNeedsGen(mes, pm) == hasVnTags(mes) /\ ~hasVnMedia(pm)

\* a variant that lets the messages of the user through
IsSkippedMessage_UserPasses(message) ==
    message.is_system \/ message.mes = <<>>

\* lines 717-721: the message is not a character message with content
IsSkippedMessage(message) ==
    message.is_user \/ message.is_system \/ message.mes = <<>>

\* a variant that restores only when the text holds no open marker at all
IsRestore_NoTagsAtAll(mes, pm) ==
    ~hasImgTags(mes) /\ ~hasVnTags(mes) /\ DOMAIN pm # {}

\* line 742
IsRestore(mes, pm) ==
    ~imgNeedsGen(mes) /\ ~vnNeedsGen(mes, pm) /\ DOMAIN pm # {}

\* a variant that does not look for the render target
DecideMode_AnyTarget(message, hasTarget) ==
    IF IsSkippedMessage(message) THEN "Skip"
    ELSE IF IsRestore(message.mes, message.phoneMedia) THEN "RestoreOnly"
    ELSE IF ~hasImgTags(message.mes) /\ ~hasVnTags(message.mes) THEN "Skip"
    ELSE "NeedsFirstGeneration"

\* the mode a render signal chooses for a message not in processedMessages
DecideMode(message, hasTarget) ==
    IF IsSkippedMessage(message) THEN "Skip"
    ELSE IF ~hasTarget THEN "NoTarget"
    ELSE IF IsRestore(message.mes, message.phoneMedia) THEN "RestoreOnly"
    ELSE IF ~hasImgTags(message.mes) /\ ~hasVnTags(message.mes) THEN "Skip"
    ELSE "NeedsFirstGeneration"

----------------------------------------------------------------------------
(* The rendered message: the widgets inside .mes_text in document order *)

Node(t, slot) == [t |-> t, slot |-> slot]

\* mesText.find('.phone-img-loading').last(): the spinner and the failure
\* notice carry the same class
LastLoading(nodes) ==
    LET hits == { i \in 1 .. Len(nodes) : nodes[i].t \in {"loading", "failed"} }
    IN  IF hits = {} THEN 0 ELSE CHOOSE i \in hits : \A j \in hits : j <= i

\* a div the character's markup has left in the message: attr is the kind
\* of its data-phone-img / data-phone-vn attribute with slot as its value,
\* text the kind whose emoji its text includes ("none" when it has none)
Div(attr, slot, text) == [t |-> "div", slot |-> slot, attr |-> attr, text |-> text]

\* line 546: the divs that carry the data attribute with the slot's index,
\* in document order
ByAttr(nodes, kind, index) ==
    Ascending({ i \in 1 .. Len(nodes) : /\ nodes[i].t = "div"
                                        /\ nodes[i].attr = kind
                                        /\ nodes[i].slot = index })

\* a div of the character's markup that holds the next node of the tree
\* and nothing else
Outer == [t |-> "outer", slot |-> -1]

\* the kind whose emoji a text holds: "cam" is the camera of line 569,
\* "tri" the triangle of line 862
EmojiOf(text) ==
    IF \E i \in 1 .. Len(text) : text[i] = "cam" THEN "img"
    ELSE IF \E i \in 1 .. Len(text) : text[i] = "tri" THEN "vn"
    ELSE "none"

\* lines 589-604: the image container of a slot.  Its div of class
\* phone-img-prompt shows the prompt; text is the kind whose emoji the
\* prompt holds
Container(slot, prompt) ==
    IF EmojiOf(prompt) = "none" THEN Node("img", slot)
    ELSE [t |-> "img", slot |-> slot, text |-> EmojiOf(prompt)]

\* lines 551-556: el.text().includes(fallbackContent) for the div at
\* position i, or for the prompt div when the node is an image container;
\* the text of a div includes the text of what it holds
HasEmoji(nodes, i, kind) ==
    \/ nodes[i].t = "div" /\ nodes[i].text = kind
    \/ /\ nodes[i].t = "outer" /\ i < Len(nodes)
       /\ nodes[i + 1].t = "div" /\ nodes[i + 1].text = kind
    \/ nodes[i].t = "img" /\ "text" \in DOMAIN nodes[i] /\ nodes[i].text = kind

\* lines 549-556: the divs whose text includes the emoji and that hold no
\* element whose class begins with phone-, in document order.  A div that
\* holds a widget is none of them; the prompt div of an image container
\* holds no element at all
Candidates(nodes, kind) ==
    Ascending({ i \in 1 .. Len(nodes) : HasEmoji(nodes, i, kind) })

\* lines 544-560: the position of the placeholder of slot index, or 0
findPlaceholder(nodes, kind, index) ==
    LET byAttr == ByAttr(nodes, kind, index)
        candidates == Candidates(nodes, kind)
    IN  IF byAttr # <<>> THEN byAttr[1]
        ELSE IF index + 1 <= Len(candidates) THEN candidates[index + 1]
        ELSE 0

\* a widget that stands inside another widget
Inside(widget) ==
    [k \in (DOMAIN widget) \cup {"inside"} |->
        IF k = "inside" THEN TRUE ELSE widget[k]]

\* placeholder.replaceWith(html): a div goes with what it holds; when the
\* placeholder is the prompt div of an image container, the container
\* loses the div and holds the widget
Replace(nodes, pos, widget) ==
    IF nodes[pos].t = "outer"
    THEN SubSeq(nodes, 1, pos - 1) \o <<widget>> \o SubSeq(nodes, pos + 2, Len(nodes))
    ELSE IF nodes[pos].t = "img"
    THEN SubSeq(nodes, 1, pos - 1)
            \o <<Node("img", nodes[pos].slot), Inside(widget)>>
            \o SubSeq(nodes, pos + 1, Len(nodes))
    ELSE [nodes EXCEPT ![pos] = widget]

\* a variant that drops the widget when no placeholder is found
Insert_NoFallback(nodes, kind, index, widget) ==
    IF findPlaceholder(nodes, kind, index) # 0
    THEN Replace(nodes, findPlaceholder(nodes, kind, index), widget)
    ELSE nodes

\* lines 574-578, 787-791, 813-819, 864-868: placeholder.replaceWith(html),
\* or mesText.append(html) when there is no placeholder
Insert(nodes, kind, index, widget) ==
    IF findPlaceholder(nodes, kind, index) # 0
    THEN Replace(nodes, findPlaceholder(nodes, kind, index), widget)
    ELSE Append(nodes, widget)

\* lines 745-749 and 568-579: restoreImage for the image records in the
\* order of their keys
RECURSIVE RestoreImages(_, _, _)
RestoreImages(nodes, pm, slots) ==
    IF slots = <<>> THEN nodes
    ELSE RestoreImages(Insert(nodes, "img", Head(slots),
                              Container(Head(slots), pm[<<"img", Head(slots)>>].prompt)),
                       pm, Tail(slots))

----------------------------------------------------------------------------
(* stripTagsFromDOM, lines 647-693, over the nodes of the rendered message *)
(* in document order.  A text node holds a sequence of tokens; "I1" is the *)
(* text "[IM" and "I2" the text "G]", so that "I1" followed by "I2" in one *)
(* node reads "[IMG]" as the token "IO" does.  A range that is deleted     *)
(* takes the nodes between its ends with it.                               *)

TextNode(val) == [t |-> "text", slot |-> -1, val |-> val]

\* the text of the text nodes of the tree
RECURSIVE Flat(_)
Flat(nodes) ==
    IF nodes = <<>> THEN <<>>
    ELSE (IF Head(nodes).t = "text" THEN Head(nodes).val ELSE <<>>)
            \o Flat(Tail(nodes))

\* lines 652-654: the tags in the order of the for loop
OpenPattern(tag) == IF tag = 1 THEN "IO" ELSE "VO"
ClosePattern(tag) == IF tag = 1 THEN "IC" ELSE "VC"

\* the least number of a set of positions, or 0 when there is none
Least(hits) ==
    IF hits = {} THEN 0 ELSE CHOOSE i \in hits : \A j \in hits : i <= j

\* val.indexOf(openPattern): the position of the first character of the
\* first open marker in val, or 0
OpenIndex(val, tag) ==
    Least({ i \in 1 .. Len(val) :
              \/ val[i] = OpenPattern(tag)
              \/ /\ tag = 1 /\ val[i] = "I1"
                 /\ i < Len(val) /\ val[i + 1] = "I2" })

\* val.indexOf(closePattern), from the start of val (line 673): the
\* marker as written in line 653, in upper case
CloseIndex(val, tag) ==
    Least({ i \in 1 .. Len(val) : val[i] = ClosePattern(tag) })

\* lines 660-681: the walk over the text nodes.  openNode is the first node
\* that holds an open marker, closeNode the first node from openNode on
\* that holds a close marker, wherever in the node it stands
OpenNode(nodes, tag) ==
    Least({ k \in 1 .. Len(nodes) : /\ nodes[k].t = "text"
                                     /\ OpenIndex(nodes[k].val, tag) # 0 })

CloseNodeFrom(nodes, tag, o) ==
    Least({ k \in 1 .. Len(nodes) :
              /\ o # 0
              /\ k >= o
              /\ nodes[k].t = "text"
              /\ CloseIndex(nodes[k].val, tag) # 0 })

CloseNode(nodes, tag) == CloseNodeFrom(nodes, tag, OpenNode(nodes, tag))

\* lines 685-692: the range from the open marker to the end of the close
\* marker is deleted and an end node left empty is removed.  setEnd with an
\* end that lies before the start moves the start to the end: the range is
\* empty and deleteContents removes nothing
DeleteContents(nodes, o, c, from, to) ==
    LET head == SubSeq(nodes[o].val, 1, from - 1)
        tail == SubSeq(nodes[c].val, to + 1, Len(nodes[c].val))
        kept == IF o = c
                THEN IF head \o tail = <<>> THEN <<>>
                     ELSE <<TextNode(head \o tail)>>
                ELSE (IF head = <<>> THEN <<>> ELSE <<TextNode(head)>>)
                        \o (IF tail = <<>> THEN <<>> ELSE <<TextNode(tail)>>)
    IN  IF o = c /\ to < from THEN nodes
        ELSE SubSeq(nodes, 1, o - 1) \o kept \o SubSeq(nodes, c + 1, Len(nodes))

\* lines 685-687: setStart(openNode, openIdx), setEnd(closeNode, closeIdx +
\* closePattern.length)
RangeOf(nodes, tag, o, c) ==
    DeleteContents(nodes, o, c, OpenIndex(nodes[o].val, tag),
                   CloseIndex(nodes[c].val, tag))

DeleteRange(nodes, tag) ==
    RangeOf(nodes, tag, OpenNode(nodes, tag), CloseNode(nodes, tag))

\* lines 656-692: the while (true) loop of one tag, run to its break.  An
\* iteration that deletes nothing is followed by the same iteration for
\* ever; the loop is cut there
RECURSIVE StripLoop(_, _)
RECURSIVE Iterate(_, _, _)
Iterate(nodes, tag, next) ==
    IF next = nodes THEN nodes ELSE StripLoop(next, tag)

StripLoop(nodes, tag) ==
    IF OpenNode(nodes, tag) = 0 \/ CloseNode(nodes, tag) = 0
    THEN nodes
    ELSE Iterate(nodes, tag, DeleteRange(nodes, tag))

\* an iteration of the loop of the tag finds a pair in the tree
Stuck(nodes, tag) == OpenNode(nodes, tag) # 0 /\ CloseNode(nodes, tag) # 0

\* lines 651-692: the tree one call leaves, the IMG round and then the VN
\* round
StripTree(nodes) == StripLoop(StripLoop(nodes, 1), 2)

\* the call of line 744 or 775 does not return: an iteration finds a pair
\* and deletes nothing
StripHangs(nodes) ==
    Stuck(StripLoop(nodes, 1), 1) \/ Stuck(StripTree(nodes), 2)

----------------------------------------------------------------------------
(* The widgets a pass inserts *)

\* a voice player (.phone-vn-wrapper): slot is the voice note it was built
\* for, bound the vnIndex of the click handlers on its buttons, -1 when no
\* handler was bound to them
Player(slot, bound) == [t |-> "vn", slot |-> slot, bound |-> bound]

\* mesText.find('.phone-vn-wrapper'): the players in document order
Wrappers(nodes) == Ascending({ i \in 1 .. Len(nodes) : nodes[i].t = "vn" })

\* lines 794-797: wrapper = mesText.find('.phone-vn-wrapper').eq(i), then
\* bindVoiceNotePlayer and bindVnEditHandler with index i; an empty jQuery
\* set binds nothing, .off('click').on('click') replaces what was bound
BindEq(nodes, i) ==
    IF i + 1 <= Len(Wrappers(nodes))
    THEN [nodes EXCEPT ![Wrappers(nodes)[i + 1]].bound = i]
    ELSE nodes

\* lines 869-874: wrapper = mesText.find('.phone-vn-wrapper').last()
BindLast(nodes, index) ==
    IF Wrappers(nodes) # <<>>
    THEN [nodes EXCEPT ![Wrappers(nodes)[Len(Wrappers(nodes))]].bound = index]
    ELSE nodes

\* lines 778-800: the players of the non-empty voice tags, one after the
\* other, each bound after it was inserted
RECURSIVE InsertPlayers(_, _)
InsertPlayers(nodes, slots) ==
    IF slots = <<>> THEN nodes
    ELSE InsertPlayers(BindEq(Insert(nodes, "vn", Head(slots),
                                     Player(Head(slots), -1)), Head(slots)),
                       Tail(slots))

\* lines 861-875: restoreVoiceNote for the voice records in their order
RECURSIVE RestorePlayers(_, _)
RestorePlayers(nodes, slots) ==
    IF slots = <<>> THEN nodes
    ELSE RestorePlayers(BindLast(Insert(nodes, "vn", Head(slots),
                                        Player(Head(slots), -1)), Head(slots)),
                        Tail(slots))

\* lines 744-754: the tree is stripped, then one widget per persisted
\* record is put in the place of its placeholder, appended when no
\* placeholder is found
RestoreNodes(nodes, pm) ==
    RestorePlayers(RestoreImages(StripTree(nodes), pm, SlotsOf(pm, "img")),
                   SlotsOf(pm, "vn"))

\* a variant that strips the tree after the players were inserted
VoiceNodes_StripLast(nodes, slots) == StripTree(InsertPlayers(nodes, slots))

\* lines 775-800: the tree is stripped, then the players of the voice
\* tags are inserted
VoiceNodes(nodes, slots) == InsertPlayers(StripTree(nodes), slots)

----------------------------------------------------------------------------
(* Suspended passes *)

NoPass == [pc |-> "none"]

Free == { p \in PassIds : passes[p] = NoPass }
Running == PassIds \ Free
RunningOn(m) == { p \in Running : passes[p].msg = m }

\* a variant that does not skip the empty prompts
NextSlot_KeepsEmpty(imgMatches, from) ==
    IF from <= Len(imgMatches) THEN from ELSE 0

\* the index of the first non-empty prompt at or after from, or 0
NextSlot(imgMatches, from) ==
    LET live == { k \in from .. Len(imgMatches) : imgMatches[k] # <<>> }
    IN  IF live = {} THEN 0 ELSE CHOOSE k \in live : \A j \in live : k <= j

ImagineRequest(p, slot) == [pass |-> p, kind |-> "imagine", slot |-> slot]
SaveRequest(p) == [pass |-> p, kind |-> "save", slot |-> -1]

----------------------------------------------------------------------------
(* Initial state: a chat loaded with character, user and system messages,  *)
(* nothing rendered yet and no media generated.                            *)

Flags == { <<FALSE, FALSE>>, <<TRUE, FALSE>>, <<FALSE, TRUE>> }

Message(f, t, pm) ==
    [is_user |-> f[1], is_system |-> f[2], mes |-> t, phoneMedia |-> pm]

\* the segments of the texts of the messages ids
RECURSIVE ChatSegs(_, _)
ChatSegs(c, ids) ==
    IF ids = {} THEN 0
    ELSE LET o == CHOOSE x \in ids : TRUE
         IN  SegCount(c[o].mes) + ChatSegs(c, ids \ {o})

\* the chats over the messages ids whose texts have at most budget segments
RECURSIVE ChatsOf(_, _)
ChatsOf(ids, budget) ==
    IF ids = {} THEN { NoMedia }
    ELSE LET m == CHOOSE x \in ids : TRUE
         IN  UNION { { Put(c, m, Message(f, t, NoMedia)) :
                         c \in ChatsOf(ids \ {m}, budget - n),
                         f \in Flags, t \in TextsOf(n) } : n \in 0 .. budget }

Init ==
    /\ chat \in ChatsOf(MsgIds, MaxGenerated)
    /\ generated = ChatSegs(chat, MsgIds)
    /\ processedMessages = {}
    /\ rendered = FALSE
    /\ dom = [m \in MsgIds |-> <<>>]
    /\ passes = [p \in PassIds |-> NoPass]
    /\ requests = {}
    /\ genDone = [m \in MsgIds |-> FALSE]

----------------------------------------------------------------------------
(* onCharacterMessageRendered, lines 714-852 *)

\* lines 778-800: the records of the non-empty voice tags
VnSlots(vnMatches) == { i \in 1 .. Len(vnMatches) : vnMatches[i] # <<>> }

VnRecords(pm, vnMatches) ==
    [k \in (DOMAIN pm) \cup { <<"vn", i - 1>> : i \in VnSlots(vnMatches) } |->
        IF k[1] = "vn" /\ (k[2] + 1) \in VnSlots(vnMatches)
        THEN VoiceRecord(vnMatches[k[2] + 1])
        ELSE pm[k]]

\* line 771
StripImgTags(mes) == Trim(StripPairs(mes, "IO", "IC"))

\* lines 802-820 and 847-850: the loop goes to the next non-empty prompt at
\* or after from, shows a spinner and awaits /imagine; past the last prompt
\* it awaits saveChatConditional.  The pass rec becomes the result, the
\* nodes of its tree become nodes (left alone when the tree was replaced).
LoopNodes(rec, from, nodes) ==
    IF NextSlot(rec.imgMatches, from) # 0 /\ rec.attached
    THEN Insert(nodes, "img", NextSlot(rec.imgMatches, from) - 1,
                Node("loading", NextSlot(rec.imgMatches, from) - 1))
    ELSE nodes

LoopPass(rec, from, nodes) ==
    LET k == NextSlot(rec.imgMatches, from)
    IN  IF k # 0
        THEN [rec EXCEPT !.pc = "imagine", !.i = k,
                         !.loadingEl = IF rec.attached
                                       THEN LastLoading(LoopNodes(rec, from, nodes))
                                       ELSE 0,
                         !.issued = Append(rec.issued, k - 1)]
        ELSE [rec EXCEPT !.pc = "save", !.i = 0, !.loadingEl = 0]

\* a variant whose loop ends at the first image: whatever the first await
\* gives, the pass goes on to saveChatConditional
LoopRequests_EndsAfterFirst(p, rec, from) ==
    IF from = 1 /\ NextSlot(rec.imgMatches, 1) # 0
    THEN { ImagineRequest(p, NextSlot(rec.imgMatches, 1) - 1) }
    ELSE { SaveRequest(p) }

\* a variant that asks for every remaining image at once
LoopRequests_AllAtOnce(p, rec, from) ==
    LET live == { k \in from .. Len(rec.imgMatches) : rec.imgMatches[k] # <<>> }
    IN  IF live # {} THEN { ImagineRequest(p, k - 1) : k \in live }
        ELSE { SaveRequest(p) }

LoopRequests(p, rec, from) ==
    LET k == NextSlot(rec.imgMatches, from)
    IN  IF k # 0 THEN { ImagineRequest(p, k - 1) } ELSE { SaveRequest(p) }

\* lines 761-821: the first-generation pass up to its first await
FirstGeneration(m, p) ==
    LET message == chat[m]
        imgMatches == MatchAll(message.mes, "IO", "IC")
        vnMatches == MatchAll(message.mes, "VO", "VC")
        pm == VnRecords(message.phoneMedia, vnMatches)
        nodes == VoiceNodes(dom[m],
                            Ascending({ i - 1 : i \in VnSlots(vnMatches) }))
        rec == [pc |-> "start", msg |-> m, i |-> 0, imgMatches |-> imgMatches,
                attached |-> TRUE, loadingEl |-> 0, issued |-> <<>>,
                stale |-> FALSE]
    IN  /\ processedMessages' = processedMessages \cup {m}
        /\ chat' = [chat EXCEPT ![m].mes = StripImgTags(message.mes),
                                ![m].phoneMedia = pm]
        /\ dom' = [dom EXCEPT ![m] = LoopNodes(rec, 1, nodes)]
        /\ passes' = [passes EXCEPT ![p] = LoopPass(rec, 1, nodes)]
        /\ requests' = requests \cup LoopRequests(p, rec, 1)
        /\ UNCHANGED <<rendered, genDone, generated>>

\* a variant of the restore pass that leaves the id out of the set
Restore_NotMarked(m) ==
    /\ dom' = [dom EXCEPT ![m] = RestoreNodes(@, chat[m].phoneMedia)]
    /\ UNCHANGED <<chat, processedMessages, rendered, passes, requests,
                   genDone, generated>>

\* lines 742-757: the restore pass runs to its end without an await
Restore(m) ==
    /\ processedMessages' = processedMessages \cup {m}
    /\ dom' = [dom EXCEPT ![m] = RestoreNodes(@, chat[m].phoneMedia)]
    /\ UNCHANGED <<chat, rendered, passes, requests, genDone, generated>>

\* a variant with no deduplication
AlreadyProcessed_Never(messageId) == FALSE

\* line 715
AlreadyProcessed(messageId) == messageId \in processedMessages

\* the handler up to its first await; messageId may be one past the chat.
\* A call of stripTagsFromDOM that does not return leaves the page with no
\* further step: the handler is taken to run on the trees it returns on
onCharacterMessageRendered(messageId) ==
    IF AlreadyProcessed(messageId) \/ messageId \notin MsgIds
    THEN UNCHANGED vars
    ELSE LET decision == DecideMode(chat[messageId], rendered)
         IN  CASE decision = "RestoreOnly" ->
                    /\ ~StripHangs(dom[messageId])
                    /\ Restore(messageId)
               [] decision = "NeedsFirstGeneration" ->
                    /\ ~StripHangs(dom[messageId])
                    /\ Free # {}
                    /\ FirstGeneration(messageId,
                                       CHOOSE p \in Free : \A q \in Free : p <= q)
               [] OTHER -> UNCHANGED vars

\* lines 822-845: /imagine settles with a URL (result.pipe), with no URL, or
\* rejects; the loop then goes on with the next prompt
ImagineSettled(p, result) ==
    /\ p \in Running
    /\ passes[p].pc = "imagine"
    /\ ImagineRequest(p, passes[p].i - 1) \in requests
    /\ LET rec == passes[p]
           m == rec.msg
           slot == rec.i - 1
           shown == IF result \in Urls THEN Container(slot, rec.imgMatches[rec.i])
                    ELSE Node("failed", slot)
           nodes == IF rec.attached /\ rec.loadingEl # 0
                    THEN [dom[m] EXCEPT ![rec.loadingEl] =
                            IF "inside" \in DOMAIN @ THEN Inside(shown) ELSE shown]
                    ELSE dom[m]
       IN  /\ chat' = IF result \in Urls
                      THEN [chat EXCEPT ![m].phoneMedia =
                                Put(@, <<"img", slot>>,
                                    ImageRecord(result, rec.imgMatches[rec.i]))]
                      ELSE chat
           /\ dom' = [dom EXCEPT ![m] = LoopNodes(rec, rec.i + 1, nodes)]
           /\ passes' = [passes EXCEPT ![p] = LoopPass(rec, rec.i + 1, nodes)]
           /\ requests' = (requests \ { ImagineRequest(p, slot) })
                              \cup LoopRequests(p, rec, rec.i + 1)
    /\ UNCHANGED <<processedMessages, rendered, genDone, generated>>

\* lines 850-852: saveChatConditional settles (resolved or rejected) and the
\* pass ends
SaveSettled(p) ==
    /\ p \in Running
    /\ passes[p].pc = "save"
    /\ SaveRequest(p) \in requests
    /\ requests' = requests \ { SaveRequest(p) }
    /\ passes' = [passes EXCEPT ![p] = NoPass]
    /\ genDone' = [genDone EXCEPT ![passes[p].msg] = @ \/ ~passes[p].stale]
    /\ UNCHANGED <<chat, processedMessages, rendered, dom, generated>>

----------------------------------------------------------------------------
(* The invalidation listeners, lines 1120-1128, with what the host does    *)
(* around the event.                                                       *)

\* CHAT_CHANGED: the set is cleared; the host empties the chat view and
\* reloads the chat, so every pass still suspended holds a detached tree.
CHAT_CHANGED ==
    /\ processedMessages' = {}
    /\ rendered' = FALSE
    /\ dom' = [m \in MsgIds |-> <<>>]
    /\ passes' = [p \in PassIds |->
                    IF p \in Running
                    THEN [passes[p] EXCEPT !.attached = FALSE, !.loadingEl = 0]
                    ELSE passes[p]]
    /\ UNCHANGED <<chat, requests, genDone, generated>>

\* a variant that clears the set on a swipe
AfterSwipe_Cleared(set, messageId) == {}

\* line 1127: processedMessages.delete(messageId)
AfterSwipe(set, messageId) == set \ {messageId}

\* MESSAGE_SWIPED: the id is deleted; the host replaces the message's
\* content by a regenerated text with no media and renders it anew.
MESSAGE_SWIPED(messageId, text) ==
    /\ rendered
    /\ ~chat[messageId].is_user /\ ~chat[messageId].is_system
    /\ generated' = generated + SegCount(text)
    /\ processedMessages' = AfterSwipe(processedMessages, messageId)
    /\ chat' = [chat EXCEPT ![messageId].mes = text,
                            ![messageId].phoneMedia = NoMedia]
    /\ dom' = [dom EXCEPT ![messageId] = <<>>]
    /\ passes' = [p \in PassIds |->
                    IF p \in RunningOn(messageId)
                    THEN [passes[p] EXCEPT !.attached = FALSE, !.loadingEl = 0,
                                           !.stale = TRUE]
                    ELSE passes[p]]
    /\ genDone' = [genDone EXCEPT ![messageId] = FALSE]
    /\ UNCHANGED <<rendered, requests>>

\* the host prints the messages of the chat into the chat view
HostRenders ==
    /\ ~rendered
    /\ rendered' = TRUE
    /\ UNCHANGED <<chat, processedMessages, dom, passes, requests, genDone,
                   generated>>

----------------------------------------------------------------------------

Next ==
    \/ \E m \in MsgIds \cup {Cardinality(MsgIds)} : onCharacterMessageRendered(m)
    \/ \E p \in PassIds, r \in Urls \cup {"none"} : ImagineSettled(p, r)
    \/ \E p \in PassIds : SaveSettled(p)
    \/ CHAT_CHANGED
    \/ \E m \in MsgIds, t \in Texts(generated) : MESSAGE_SWIPED(m, t)
    \/ HostRenders

Spec == Init /\ [][Next]_vars

----------------------------------------------------------------------------
(* Vocabulary of the properties *)

hasImgMedia(pm) == \E k \in DOMAIN pm : k[1] = "img"

\* a render signal for m would pass the guard of line 715 and find .mes_text
Unprocessed(m) == m \notin processedMessages /\ rendered

\* the mode the handler chooses for m in the current state
ModeOf(m) == DecideMode(chat[m], rendered)

----------------------------------------------------------------------------
(* C1 *)

\* C1: once a first-generation pass over a message has completed, a later
\* render of that message with unchanged content, after a chat switch
\* removed its id from processedMessages, takes the restore path.  Stated
\* for the messages that have a persisted slot and whose text holds no open
\* marker any more, where line 742 is the only path that shows the media.
C1_LaterPassRestores ==
    \A m \in MsgIds :
        ( /\ genDone[m] /\ Unprocessed(m)
          /\ DOMAIN chat[m].phoneMedia # {}
          /\ ~HasOpen(chat[m].mes, "IO") /\ ~HasOpen(chat[m].mes, "VO") )
            => ModeOf(m) = "RestoreOnly"

----------------------------------------------------------------------------
(* C2 *)

----------------------------------------------------------------------------
(* C3 *)

C3_Rule(m) ==
    LET mes == chat[m].mes
        pm == chat[m].phoneMedia
        needsGen == HasOpen(mes, "IO") \/ (HasOpen(mes, "VO") /\ ~hasVnMedia(pm))
    IN  /\ ModeOf(m) = "RestoreOnly" <=> (~needsGen /\ DOMAIN pm # {})
        /\ ModeOf(m) = "NeedsFirstGeneration" <=> needsGen
        /\ ModeOf(m) = "Skip" <=> (~needsGen /\ DOMAIN pm = {})

----------------------------------------------------------------------------
(* C4 *)

\* C4: a render signal for an id that is in processedMessages changes
\* nothing: no request is issued and chat, processedMessages and the
\* rendered widgets keep their values, whatever the tags and slots are.
C4_ProcessedShortCircuits ==
    [][\A m \in MsgIds :
         (m \in processedMessages /\ onCharacterMessageRendered(m))
            => UNCHANGED vars]_vars

\* a processed message with no pass in progress that the decision rule
\* would restore or generate if its id were not in the set
C4_Witness ==
    \E m \in MsgIds :
        /\ m \in processedMessages /\ rendered /\ RunningOn(m) = {}
        /\ DecideMode(chat[m], TRUE) \in {"RestoreOnly", "NeedsFirstGeneration"}

----------------------------------------------------------------------------
(* C5 *)

\* C5: CHAT_CHANGED empties processedMessages; MESSAGE_SWIPED for m removes
\* m and keeps every other id; a render signal for an id that is not in the
\* set is handled by the decision rule: when it changes the state, the mode
\* is RestoreOnly or NeedsFirstGeneration and the id enters the set.
C5_Invalidation ==
    [][/\ processedMessages' = {} \/ ~CHAT_CHANGED
       /\ \A m \in MsgIds :
            \/ processedMessages' = processedMessages \ {m}
            \/ ~MESSAGE_SWIPED(m, chat'[m].mes)
       /\ \A m \in MsgIds :
            ( /\ m \notin processedMessages
              /\ \/ ModeOf(m) \notin {"RestoreOnly", "NeedsFirstGeneration"}
                 \/ processedMessages' # processedMessages \cup {m} )
                => ~onCharacterMessageRendered(m)]_vars

\* a swipe took the id of a message out of the set while its pass was
\* suspended, and the id of the other message is still in the set
C5_Witness ==
    \E p \in Running :
        /\ passes[p].stale
        /\ passes[p].msg \notin processedMessages
        /\ processedMessages # {}

----------------------------------------------------------------------------
(* C6 *)

\* C6: at most one pass over the same message id is in progress at any
\* time.  Stated for the passes that are suspended at their /imagine call:
\* no two of them are over the same message.
C6_OnePassPerMessage ==
    \A m \in MsgIds :
        Cardinality({ p \in RunningOn(m) : passes[p].pc = "imagine" }) <= 1

----------------------------------------------------------------------------
(* C7 *)

----------------------------------------------------------------------------
(* C8 *)

\* C8: a render signal for a message of the user, a system message or a
\* message with no content changes nothing; the id of a user or system
\* message is never in processedMessages, no pass runs over it, and its
\* text, its phoneMedia and its rendered content stay as the host made them.
C8_SkippedMessages ==
    /\ [](\A m \in MsgIds :
            (chat[m].is_user \/ chat[m].is_system)
                => /\ m \notin processedMessages
                   /\ RunningOn(m) = {}
                   /\ chat[m].phoneMedia = NoMedia
                   /\ dom[m] = <<>>)
    /\ [][\A m \in MsgIds :
            (IsSkippedMessage(chat[m]) /\ onCharacterMessageRendered(m))
                => UNCHANGED vars]_vars

\* a user or system message with an image tag in its text stays unhandled
\* while the pass over the character message has been made
C8_Witness ==
    \E m \in MsgIds :
        /\ chat[m].is_user \/ chat[m].is_system
        /\ HasOpen(chat[m].mes, "IO")
        /\ rendered
        /\ processedMessages # {}

----------------------------------------------------------------------------
(* C9 *)

\* C9: while the chat view holds no message element, a render signal
\* changes nothing and no id is in processedMessages, so that the signal
\* that follows the rendering is not stopped at line 715.
C9_NoTarget ==
    /\ [](~rendered =>
            /\ processedMessages = {}
            /\ \A m \in MsgIds : dom[m] = <<>>)
    /\ [][\A m \in MsgIds :
            (~rendered /\ onCharacterMessageRendered(m)) => UNCHANGED vars]_vars

\* after a chat switch a message with persisted media has no element in the
\* chat view yet
C9_Witness ==
    \E m \in MsgIds :
        /\ ~rendered
        /\ genDone[m]
        /\ DecideMode(chat[m], TRUE) = "RestoreOnly"

----------------------------------------------------------------------------
(* C10 *)

\* the /imagine calls of pass p that have not settled
Outstanding(p) == { r \in requests : r.pass = p /\ r.kind = "imagine" }

\* C10: a first-generation pass has at most one /imagine call outstanding,
\* that call is for the slot it asked last, and the slots it has asked for
\* are in ascending order.
C10_Sequential ==
    \A p \in Running :
        LET issued == passes[p].issued
        IN  /\ Cardinality(Outstanding(p)) <= 1
            /\ \A i, j \in 1 .. Len(issued) : i < j => issued[i] < issued[j]
            /\ Outstanding(p) # {} =>
                  /\ passes[p].pc = "imagine"
                  /\ Outstanding(p) = { ImagineRequest(p, issued[Len(issued)]) }
            /\ passes[p].pc = "imagine" => Outstanding(p) # {}

\* a pass waits for its second image after the first one has settled
C10_Witness ==
    \E p \in Running :
        /\ passes[p].issued = <<0, 1>>
        /\ Outstanding(p) = { ImagineRequest(p, 1) }

----------------------------------------------------------------------------
(* C11 *)

\* the prompts after position i of pass p that are not empty
LaterPrompts(p, i) ==
    { k \in (i + 1) .. Len(passes[p].imgMatches) : passes[p].imgMatches[k] # <<>> }

\* C11: when the /imagine call of image slot i gives no URL or rejects, the
\* step writes no record (phoneMedia of every message is unchanged), and
\* the pass asks for the next non-empty image slot, or calls
\* saveChatConditional when no such slot is left.
C11_FailureContained ==
    [][\A p \in PassIds :
         (passes[p] # NoPass /\ ImagineSettled(p, "none"))
            => /\ \A m \in MsgIds : chat'[m].phoneMedia = chat[m].phoneMedia
               /\ IF LaterPrompts(p, passes[p].i) # {}
                  THEN \E k \in LaterPrompts(p, passes[p].i) :
                          /\ \A j \in LaterPrompts(p, passes[p].i) : k <= j
                          /\ ImagineRequest(p, k - 1) \in requests'
                  ELSE SaveRequest(p) \in requests']_vars

\* the image of slot 0 failed, no record was written for it, and the pass
\* waits for the image of slot 1
C11_Witness ==
    \E p \in Running :
        /\ passes[p].issued = <<0, 1>>
        /\ passes[p].attached
        /\ <<"img", 0>> \notin DOMAIN chat[passes[p].msg].phoneMedia
        /\ Node("failed", 0) \in { dom[passes[p].msg][i] : i \in 1 .. Len(dom[passes[p].msg]) }
        /\ ImagineRequest(p, 1) \in requests

----------------------------------------------------------------------------
(* C12 *)

\* the requests a reprocess of message m would make, were its id not in
\* processedMessages: the slots of the non-empty image prompts of its text
RetrySlots(m) ==
    IF DecideMode(chat[m], TRUE) # "NeedsFirstGeneration" THEN {}
    ELSE LET imgMatches == MatchAll(chat[m].mes, "IO", "IC")
         IN  { k - 1 : k \in { j \in 1 .. Len(imgMatches) : imgMatches[j] # <<>> } }

\* C12: after the generation of image slot i failed in a pass over m that
\* has ended (the failure notice of slot i is shown and no pass is
\* suspended), a reprocess of m with the content as the pass left it asks
\* for slot i again.
C12_FailedSlotRetried ==
    \A m \in MsgIds :
        \A i \in 1 .. Len(dom[m]) :
            (dom[m][i].t = "failed" /\ genDone[m] /\ RunningOn(m) = {})
                => dom[m][i].slot \in RetrySlots(m)

----------------------------------------------------------------------------
(* Texts with markers in any order: the same handler over one message      *)
(* whose text is any sequence of at most MaxLen tokens, so that tag pairs  *)
(* may nest and overlap.                                                   *)

MaxLen == 5     \* tokens of the text of the message

Tokens == { "IO", "IC", "VO", "VC", "a", "s" }

TokenTexts == UNION { [1 .. n -> Tokens] : n \in 0 .. MaxLen }

InitTags ==
    /\ \E t \in TokenTexts :
          chat = [m \in MsgIds |->
                    Message(<<FALSE, FALSE>>, IF m = 0 THEN t ELSE <<>>, NoMedia)]
    /\ generated = MaxGenerated
    /\ processedMessages = {}
    /\ rendered = FALSE
    /\ dom = [m \in MsgIds |-> <<>>]
    /\ passes = [p \in PassIds |-> NoPass]
    /\ requests = {}
    /\ genDone = [m \in MsgIds |-> FALSE]

NextTags ==
    \/ \E m \in MsgIds : onCharacterMessageRendered(m)
    \/ \E p \in PassIds, r \in Urls \cup {"none"} : ImagineSettled(p, r)
    \/ \E p \in PassIds : SaveSettled(p)
    \/ CHAT_CHANGED
    \/ HostRenders

SpecTags == InitTags /\ [][NextTags]_vars

\* the tag pairs of t as the regular expressions match them, markers and
\* content as written
RECURSIVE PairsFrom(_, _, _, _)
PairsFrom(t, open, close, pos) ==
    LET o == IndexFrom(t, open, pos)
        c == IF o = 0 THEN 0 ELSE IndexFrom(t, close, o + 1)
    IN  IF o = 0 \/ c = 0 THEN <<>>
        ELSE <<SubSeq(t, o, c)>> \o PairsFrom(t, open, close, c + 1)

PairsOf(t, open, close) == PairsFrom(t, open, close, 1)

----------------------------------------------------------------------------
(* C13 *)

\* the voice pairs of t hold no image marker
CleanVoicePairs(t) ==
    \A i \in 1 .. Len(PairsOf(t, "VO", "VC")) :
        \A j \in 1 .. Len(PairsOf(t, "VO", "VC")[i]) :
            PairsOf(t, "VO", "VC")[i][j] \notin {"IO", "IC"}

\* C13: when a first-generation pass starts on message m, the text it
\* leaves holds no [IMG]...[/IMG] pair, and the [VN]...[/VN] pairs of the
\* text it found are all still there, in order, with their content.  Stated
\* for the texts whose voice pairs hold no image marker.
C13_ImgStrippedVnKept ==
    [][\A m \in MsgIds :
         (m \notin processedMessages /\ m \in processedMessages'
            /\ ModeOf(m) = "NeedsFirstGeneration"
            /\ CleanVoicePairs(chat[m].mes))
            => /\ PairsOf(chat'[m].mes, "IO", "IC") = <<>>
               /\ PairsOf(chat'[m].mes, "VO", "VC") = PairsOf(chat[m].mes, "VO", "VC")]_vars

----------------------------------------------------------------------------
(* The widgets: the carousel of an image container (bindCarouselHandlers,  *)
(* lines 1039-1118) and the editor of a voice note (bindVnEditHandler,     *)
(* lines 982-1032).  A click handler that is suspended at an await is a    *)
(* record of passes, like a pass of onCharacterMessageRendered.            *)

MaxVariants == 3    \* urls of one image record

\* what /imagine gives for a variant
NewUrls == { "u2" }

\* { url, type, prompt } without urls: line 1053, media.url && !media.urls
IsLegacy(media) == "url" \in DOMAIN media /\ "urls" \notin DOMAIN media

\* a variant that counts the index of the migrated record from one
Migrate_IndexFromOne(media) ==
    IF IsLegacy(media)
    THEN [type |-> media.type, urls |-> <<media.url>>, prompt |-> media.prompt,
          activeIndex |-> 1]
    ELSE media

\* lines 1053-1057 and 1073-1077
Migrate(media) ==
    IF IsLegacy(media)
    THEN [type |-> media.type, urls |-> <<media.url>>, prompt |-> media.prompt,
          activeIndex |-> 0]
    ELSE media

\* lines 570-571: the urls and the index restoreImage reads from a record
UrlsOf(media) == IF "urls" \in DOMAIN media THEN media.urls ELSE <<media.url>>
ActiveIndexOf(media) == IF "activeIndex" \in DOMAIN media THEN media.activeIndex ELSE 0

\* the .phone-img-container elements of message m in document order
Containers(m) == SelectSeq(dom[m], LAMBDA n : n.t = "img")

\* bindCarouselHandlers has run over the containers of m: at once in restore
\* mode (line 756), after the image loop in a first-generation pass (line 848)
CarouselBound(m) ==
    \A p \in RunningOn(m) : passes[p].attached => passes[p].pc # "imagine"

\* the container with DOM index c of message m has its handlers bound
Clickable(m, c) ==
    /\ rendered
    /\ c \in 0 .. (Len(Containers(m)) - 1)
    /\ CarouselBound(m)

Handler(pc, m, i) ==
    [pc |-> pc, msg |-> m, i |-> i, imgMatches |-> <<>>, attached |-> TRUE,
     loadingEl |-> 0, issued |-> <<>>, stale |-> FALSE]

\* a handler of container c of message m holds the right button disabled
\* (lines 1091 and 1112: from the click to the finally block)
RightDisabled(m, c) ==
    \E p \in RunningOn(m) :
        /\ passes[p].pc \in {"variant", "variantSave"}
        /\ passes[p].i = c
        /\ passes[p].attached

\* a variant of the left arrow that always steps back
AtFirst_Never(media) == FALSE

\* line 1059
AtFirst(media) == media.activeIndex <= 0

\* lines 1047-1065: click on the left arrow of container c
leftClick(m, c) ==
    /\ Clickable(m, c)
    /\ IF <<"img", c>> \notin DOMAIN chat[m].phoneMedia
       THEN UNCHANGED chat
       ELSE LET media == Migrate(chat[m].phoneMedia[<<"img", c>>])
            IN  chat' = [chat EXCEPT ![m].phoneMedia[<<"img", c>>] =
                            IF AtFirst(media) THEN media
                            ELSE [media EXCEPT !.activeIndex = @ - 1]]
    /\ UNCHANGED <<processedMessages, rendered, dom, passes, requests, genDone,
                   generated>>

\* a variant that forgets the index the user browsed to and steps from the
\* last one
AppendVariant_StepsIndex(media, url) ==
    [media EXCEPT !.urls = Append(@, url), !.activeIndex = @ + 1]

\* lines 1100-1101: media.urls.push(newUrl); media.activeIndex = length - 1
AppendVariant(media, url) ==
    [media EXCEPT !.urls = Append(@, url), !.activeIndex = Len(media.urls)]

\* a variant of the right arrow that always steps forward
isLast_Never(media) == FALSE

\* line 1079
isLast(media) == media.activeIndex >= Len(media.urls) - 1

\* lines 1067-1093: click on the right arrow of container c, up to the
\* return of line 1087 or the await of line 1094
rightClick(m, c) ==
    /\ Clickable(m, c)
    /\ ~RightDisabled(m, c)
    /\ IF <<"img", c>> \notin DOMAIN chat[m].phoneMedia
       THEN UNCHANGED <<chat, passes, requests>>
       ELSE LET media == Migrate(chat[m].phoneMedia[<<"img", c>>])
            IN  IF ~isLast(media)
                THEN /\ chat' = [chat EXCEPT ![m].phoneMedia[<<"img", c>>] =
                                    [media EXCEPT !.activeIndex = @ + 1]]
                     /\ UNCHANGED <<passes, requests>>
                ELSE /\ Len(media.urls) < MaxVariants
                     /\ Free # {}
                     /\ LET p == CHOOSE q \in Free : \A r \in Free : q <= r
                        IN  /\ passes' = [passes EXCEPT ![p] = Handler("variant", m, c)]
                            /\ requests' = requests \cup { ImagineRequest(p, c) }
                     /\ chat' = [chat EXCEPT ![m].phoneMedia[<<"img", c>>] = media]
    /\ UNCHANGED <<processedMessages, rendered, dom, genDone, generated>>

\* lines 1094-1113: /imagine of a variant settles with a URL, with no URL,
\* or rejects
VariantSettled(p, result) ==
    /\ p \in Running
    /\ passes[p].pc = "variant"
    /\ ImagineRequest(p, passes[p].i) \in requests
    /\ LET m == passes[p].msg
           key == <<"img", passes[p].i>>
           media == chat[m].phoneMedia[key]
       IN  IF result \in NewUrls
           THEN /\ chat' = [chat EXCEPT ![m].phoneMedia[key] =
                                AppendVariant(media, result)]
                /\ passes' = [passes EXCEPT ![p].pc = "variantSave",
                                            ![p].issued = <<media.activeIndex>>]
                /\ requests' = (requests \ { ImagineRequest(p, passes[p].i) })
                                    \cup { SaveRequest(p) }
           ELSE /\ passes' = [passes EXCEPT ![p] = NoPass]
                /\ requests' = requests \ { ImagineRequest(p, passes[p].i) }
                /\ UNCHANGED chat
    /\ UNCHANGED <<processedMessages, rendered, dom, genDone, generated>>

\* lines 1105-1113: saveChatConditional settles (resolved or rejected) and
\* the handler ends in its finally block
VariantSaveSettled(p) ==
    /\ p \in Running
    /\ passes[p].pc = "variantSave"
    /\ SaveRequest(p) \in requests
    /\ requests' = requests \ { SaveRequest(p) }
    /\ passes' = [passes EXCEPT ![p] = NoPass]
    /\ UNCHANGED <<chat, processedMessages, rendered, dom, genDone, generated>>

----------------------------------------------------------------------------
(* The editor of a voice note *)

MaxMes == 7     \* tokens of a message text after an edit

\* what the user may have typed into the textarea: plain text, and text
\* that holds voice markers
PlainEdits == { <<"b">>, <<"s", "b", "s">>, <<"s">> }
EditTexts == PlainEdits \cup { <<"VC", "VO">> }

\* lines 964-974: mes.replace(regex, callback) with the callback counting
\* the matches
RECURSIVE ReplaceFrom(_, _, _, _, _)
ReplaceFrom(t, pos, count, index, newText) ==
    LET o == IndexFrom(t, "VO", pos)
        c == IF o = 0 THEN 0 ELSE IndexFrom(t, "VC", o + 1)
    IN  IF o = 0 \/ c = 0 THEN SubSeq(t, pos, Len(t))
        ELSE SubSeq(t, pos, o - 1)
                \o (IF count = index THEN <<"VO">> \o newText \o <<"VC">>
                    ELSE SubSeq(t, o, c))
                \o ReplaceFrom(t, c + 1, count + 1, index, newText)

replaceNthVnTag(mes, index, newText) == ReplaceFrom(mes, 1, 0, index, newText)

\* a wrapper of message m is in the tree with the handlers of vnIndex n on
\* its buttons (lines 795-797 and 869-873)
Editable(m, n) ==
    /\ rendered
    /\ \E i \in 1 .. Len(dom[m]) : dom[m][i].t = "vn" /\ dom[m][i].bound = n

\* lines 1001-1019: saveVnText, up to its await, called by the click
\* handler pc
saveVnTextBy(pc, m, vnIndex, typed) ==
    /\ Editable(m, vnIndex)
    /\ LET newText == Trim(typed)
           key == <<"vn", vnIndex>>
           mes == replaceNthVnTag(chat[m].mes, vnIndex, newText)
       IN  IF newText = <<>>
           THEN UNCHANGED <<chat, passes, requests>>
           ELSE /\ Len(mes) <= MaxMes
                /\ Free # {}
                /\ chat' = [chat EXCEPT
                              ![m].phoneMedia =
                                  IF key \in DOMAIN @
                                  THEN [@ EXCEPT ![key].text = newText]
                                  ELSE @,
                              ![m].mes = mes]
                /\ LET p == CHOOSE q \in Free : \A r \in Free : q <= r
                   IN  /\ passes' = [passes EXCEPT ![p] = Handler(pc, m, vnIndex)]
                       /\ requests' = requests \cup { SaveRequest(p) }
    /\ UNCHANGED <<processedMessages, rendered, dom, genDone, generated>>

\* lines 1021-1023: click on the Save button of the editor
saveVnText(m, vnIndex, typed) == saveVnTextBy("vnSave", m, vnIndex, typed)

\* a variant that drops the records of the message when the save settles
VnSaveSettled_RollsBack(p) ==
    /\ p \in Running
    /\ passes[p].pc = "vnSave"
    /\ SaveRequest(p) \in requests
    /\ requests' = requests \ { SaveRequest(p) }
    /\ passes' = [passes EXCEPT ![p] = NoPass]
    /\ chat' = [chat EXCEPT ![passes[p].msg].phoneMedia = NoMedia]
    /\ UNCHANGED <<processedMessages, rendered, dom, genDone, generated>>

\* lines 1017-1018: saveChatConditional settles and saveVnText returns
VnSaveSettled(p) ==
    /\ p \in Running
    /\ passes[p].pc = "vnSave"
    /\ SaveRequest(p) \in requests
    /\ requests' = requests \ { SaveRequest(p) }
    /\ passes' = [passes EXCEPT ![p] = NoPass]
    /\ UNCHANGED <<chat, processedMessages, rendered, dom, genDone, generated>>

----------------------------------------------------------------------------
(* The widgets of one message: a chat whose first message was handled in   *)
(* an earlier session (its records are persisted, in the current or in the *)
(* legacy shape) or is new, with the handler, the carousel and the editor. *)

LegacyRecord(url, prompt) == [type |-> "image", url |-> url, prompt |-> prompt]

CarouselRecords ==
    { LegacyRecord("u1", <<"l">>),
      ImageRecord("u1", <<"a">>),
      [ImageRecord("u1", <<"a">>) EXCEPT !.urls = <<"u1", "u2">>],
      [ImageRecord("u1", <<"a">>) EXCEPT !.urls = <<"u1", "u2">>, !.activeIndex = 1] }

WidgetMessages ==
    { Message(<<FALSE, FALSE>>, <<"x">>, Put(NoMedia, <<"img", 0>>, r)) :
        r \in CarouselRecords }
    \cup
    { Message(<<FALSE, FALSE>>, <<"x", "VO", "v", "VC">>,
              Put(Put(NoMedia, <<"img", 0>>, r), <<"vn", 0>>, VoiceRecord(<<"v">>))) :
        r \in CarouselRecords }
    \cup
    { Message(<<FALSE, FALSE>>, <<"IO", "a", "IC", "VO", "v", "VC">>, NoMedia) }

InitWidgets ==
    /\ \E w \in WidgetMessages :
          chat = [m \in MsgIds |->
                    IF m = 0 THEN w ELSE Message(<<FALSE, FALSE>>, <<>>, NoMedia)]
    /\ generated = MaxGenerated
    /\ processedMessages = {}
    /\ rendered = FALSE
    /\ dom = [m \in MsgIds |-> <<>>]
    /\ passes = [p \in PassIds |-> NoPass]
    /\ requests = {}
    /\ genDone = [m \in MsgIds |-> FALSE]

NextWidgets ==
    \/ \E m \in MsgIds : onCharacterMessageRendered(m)
    \/ \E p \in PassIds, r \in Urls \cup {"none"} : ImagineSettled(p, r)
    \/ \E p \in PassIds : SaveSettled(p)
    \/ CHAT_CHANGED
    \/ HostRenders
    \/ \E m \in MsgIds, c \in 0 .. 1 : leftClick(m, c)
    \/ \E m \in MsgIds, c \in 0 .. 1 : rightClick(m, c)
    \/ \E p \in PassIds, r \in NewUrls \cup {"none"} : VariantSettled(p, r)
    \/ \E p \in PassIds : VariantSaveSettled(p)
    \/ \E m \in MsgIds, n \in 0 .. 1, t \in PlainEdits : saveVnText(m, n, t)
    \/ \E p \in PassIds : VnSaveSettled(p)

SpecWidgets == InitWidgets /\ [][NextWidgets]_vars

----------------------------------------------------------------------------
(* C14 *)

\* the image records of message m
ImageKeys(m) == { k \in DOMAIN chat[m].phoneMedia : k[1] = "img" }

\* C14: every image record has 0 <= activeIndex < length(urls), a legacy
\* record counting as the one url at index 0 that restoreImage reads from
\* it, in every state that clicks on the arrows, variant generations that
\* are pending, resolve or fail, migrations and passes can reach.
C14_ActiveIndexInRange ==
    \A m \in MsgIds :
        \A k \in ImageKeys(m) :
            /\ 0 <= ActiveIndexOf(chat[m].phoneMedia[k])
            /\ ActiveIndexOf(chat[m].phoneMedia[k]) < Len(UrlsOf(chat[m].phoneMedia[k]))

\* a variant is being generated for a record of three urls that the user
\* has browsed back to its first url
C14_Witness ==
    \E p \in Running :
        /\ passes[p].pc = "variant"
        /\ <<"img", passes[p].i>> \in ImageKeys(passes[p].msg)
        /\ Len(UrlsOf(chat[passes[p].msg].phoneMedia[<<"img", passes[p].i>>])) = 3
        /\ ActiveIndexOf(chat[passes[p].msg].phoneMedia[<<"img", passes[p].i>>]) = 0

----------------------------------------------------------------------------
(* C15 *)

\* C15: when /imagine gives a new variant URL, the urls of the record grow
\* by that URL at the end and activeIndex is length(urls) - 1 afterwards,
\* wherever the user browsed to while the call was pending.
C15_AppendVariant ==
    [][\A p \in PassIds : \A u \in NewUrls :
         (passes[p] # NoPass /\ passes[p].pc = "variant" /\ VariantSettled(p, u))
            => LET m == passes[p].msg
                   key == <<"img", passes[p].i>>
               IN  /\ chat'[m].phoneMedia[key].urls
                        = Append(chat[m].phoneMedia[key].urls, u)
                   /\ chat'[m].phoneMedia[key].activeIndex
                        = Len(chat'[m].phoneMedia[key].urls) - 1]_vars

\* a variant was appended while the record showed an url before its last
\* one, and the record now shows the new url
C15_Witness ==
    \E p \in Running :
        /\ passes[p].pc = "variantSave"
        /\ LET media == chat[passes[p].msg].phoneMedia[<<"img", passes[p].i>>]
           IN  /\ passes[p].issued[1] < Len(media.urls) - 2
               /\ media.activeIndex = Len(media.urls) - 1

----------------------------------------------------------------------------
(* C16 *)

\* the image record of container c of message m, when it has one
HasImage(m, c) == <<"img", c>> \in DOMAIN chat[m].phoneMedia
ImageOf(m, c) == chat[m].phoneMedia[<<"img", c>>]

\* C16: navigation is clamped.  A click on the left arrow never issues a
\* request and never changes the urls, and at activeIndex 0 it leaves the
\* index at 0.  A click on the right arrow below the last url steps the
\* index by one and issues no request; at the last url it leaves the index
\* and the urls alone and issues the one /imagine call of a new variant.
C16_NavigationClamped ==
    [][\A m \in MsgIds : \A c \in 0 .. 1 :
         /\ (HasImage(m, c) /\ leftClick(m, c))
               => /\ requests' = requests
                  /\ passes' = passes
                  /\ UrlsOf(ImageOf(m, c)') = UrlsOf(ImageOf(m, c))
                  /\ ActiveIndexOf(ImageOf(m, c)) = 0
                        => ActiveIndexOf(ImageOf(m, c)') = 0
         /\ (HasImage(m, c) /\ rightClick(m, c))
               => /\ UrlsOf(ImageOf(m, c)') = UrlsOf(ImageOf(m, c))
                  /\ IF ActiveIndexOf(ImageOf(m, c)) < Len(UrlsOf(ImageOf(m, c))) - 1
                     THEN /\ ActiveIndexOf(ImageOf(m, c)')
                                = ActiveIndexOf(ImageOf(m, c)) + 1
                          /\ requests' = requests
                          /\ passes' = passes
                     ELSE /\ ActiveIndexOf(ImageOf(m, c)')
                                = ActiveIndexOf(ImageOf(m, c))
                          /\ \E p \in PassIds :
                                requests' = requests \cup { ImagineRequest(p, c) }
                          /\ requests' # requests]_vars

\* the record that was persisted in the legacy shape has a second url, from
\* a click on the right arrow at its last url, and shows its first url
\* again, from a click on the left arrow; nothing is pending
C16_Witness ==
    /\ HasImage(0, 0)
    /\ ImageOf(0, 0).prompt = <<"l">>
    /\ UrlsOf(ImageOf(0, 0)) = <<"u1", "u2">>
    /\ ActiveIndexOf(ImageOf(0, 0)) = 0
    /\ requests = {}

----------------------------------------------------------------------------
(* C17 *)

\* C17: a step that changes a record or the text of a message is the step
\* of a handler that has the call of saveChatConditional ahead of it or
\* outstanding: the handler is suspended after the step.
C17_MutationThenSave ==
    [][chat' # chat
         => \E p \in PassIds : passes'[p] # NoPass /\ passes'[p] # passes[p]]_vars

----------------------------------------------------------------------------
(* C18 *)

\* C18: when saveChatConditional settles, resolved or rejected, after a
\* first-generation pass, the append of a variant or the rewrite of a voice
\* text, the records and the text of every message stay as the handler left
\* them, and so does the rendered message.
C18_NoRollback ==
    [][\A p \in PassIds :
         (SaveSettled(p) \/ VariantSaveSettled(p) \/ VnSaveSettled(p))
            => chat' = chat /\ dom' = dom]_vars

\* the save of a rewritten voice text has settled: the text and the record
\* hold what the user typed
C18_Witness ==
    /\ Running = {}
    /\ requests = {}
    /\ <<"vn", 0>> \in DOMAIN chat[0].phoneMedia
    /\ chat[0].phoneMedia[<<"vn", 0>>].text = <<"b">>
    /\ PairsOf(chat[0].mes, "VO", "VC") = << <<"VO", "b", "VC">> >>

----------------------------------------------------------------------------
(* C20 *)

\* C20: the migration of a legacy record is idempotent and keeps the shape:
\* a record { url, prompt } without urls becomes the record with urls
\* <<url>> and activeIndex 0, a record that has urls is left as it is,
\* migrating twice gives what migrating once gives, and a click on either
\* arrow leaves a record that has the urls and the prompt it had before.
C20_MigrationIdempotent ==
    [][\A m \in MsgIds : \A c \in 0 .. 1 :
         (HasImage(m, c) /\ (leftClick(m, c) \/ rightClick(m, c)))
            => /\ Migrate(Migrate(ImageOf(m, c))) = Migrate(ImageOf(m, c))
               /\ IF IsLegacy(ImageOf(m, c))
                  THEN /\ Migrate(ImageOf(m, c))
                            = [type |-> ImageOf(m, c).type,
                               urls |-> <<ImageOf(m, c).url>>,
                               prompt |-> ImageOf(m, c).prompt,
                               activeIndex |-> 0]
                       /\ ImageOf(m, c)' = Migrate(ImageOf(m, c))
                  ELSE Migrate(ImageOf(m, c)) = ImageOf(m, c)
               /\ ~IsLegacy(ImageOf(m, c)')
               /\ Migrate(ImageOf(m, c)') = ImageOf(m, c)'
               /\ ImageOf(m, c)'.urls = UrlsOf(ImageOf(m, c))
               /\ ImageOf(m, c)'.prompt = ImageOf(m, c).prompt]_vars

\* the record that was persisted in the legacy shape has been migrated by a
\* click and has not changed otherwise
C20_Witness ==
    /\ HasImage(0, 0)
    /\ ImageOf(0, 0) = [type |-> "image", urls |-> <<"u1">>,
                        prompt |-> <<"l">>, activeIndex |-> 0]

----------------------------------------------------------------------------
(* The editor over texts of several voice notes: new messages whose voice  *)
(* notes the handler renders, and a user who may type anything into the    *)
(* textarea, voice markers included.                                       *)

EditMessages ==
    { Message(<<FALSE, FALSE>>, t, NoMedia) :
        t \in { <<"VO", "v", "VC">>,
                <<"VO", "v", "VC", "x", "VO", "w", "VC">>,
                <<"IO", "a", "IC", "VO", "v", "VC">>,
                <<"VO", "v", "IO", "a", "IC", "VC">>,
                <<"IO", "a", "VO", "b", "IC", "c", "VC">> } }

InitEdit ==
    /\ \E w \in EditMessages :
          chat = [m \in MsgIds |->
                    IF m = 0 THEN w ELSE Message(<<FALSE, FALSE>>, <<>>, NoMedia)]
    /\ generated = MaxGenerated
    /\ processedMessages = {}
    /\ rendered = FALSE
    /\ dom = [m \in MsgIds |-> <<>>]
    /\ passes = [p \in PassIds |-> NoPass]
    /\ requests = {}
    /\ genDone = [m \in MsgIds |-> FALSE]

NextEdit ==
    \/ \E m \in MsgIds : onCharacterMessageRendered(m)
    \/ \E p \in PassIds, r \in Urls \cup {"none"} : ImagineSettled(p, r)
    \/ \E p \in PassIds : SaveSettled(p)
    \/ CHAT_CHANGED
    \/ HostRenders
    \/ \E m \in MsgIds, n \in 0 .. 1, t \in EditTexts : saveVnText(m, n, t)
    \/ \E p \in PassIds : VnSaveSettled(p)

SpecEdit == InitEdit /\ [][NextEdit]_vars

----------------------------------------------------------------------------
(* C19 *)

\* the voice pairs of a text and the text outside them
VnPairs(t) == PairsOf(t, "VO", "VC")
OutsideVn(t) == StripPairs(t, "VO", "VC")

\* C19: saving the text t, not empty and with no whitespace around it, for
\* voice note n of a message that has an n-th voice pair leaves the text of
\* the message with as many voice pairs as before, the n-th one holding t,
\* every other one as it was, the text outside the pairs as it was, and
\* the record of the note holding t.
C19_NthPairRewritten ==
    [][\A m \in MsgIds : \A n \in 0 .. 1 : \A t \in EditTexts :
         (t = Trim(t) /\ t # <<>> /\ n < Len(VnPairs(chat[m].mes))
            /\ saveVnText(m, n, t))
            => /\ Len(VnPairs(chat'[m].mes)) = Len(VnPairs(chat[m].mes))
               /\ \A j \in 1 .. Len(VnPairs(chat[m].mes)) :
                     VnPairs(chat'[m].mes)[j]
                        = IF j = n + 1 THEN <<"VO">> \o t \o <<"VC">>
                          ELSE VnPairs(chat[m].mes)[j]
               /\ OutsideVn(chat'[m].mes) = OutsideVn(chat[m].mes)
               /\ <<"vn", n>> \in DOMAIN chat[m].phoneMedia
                     => chat'[m].phoneMedia[<<"vn", n>>].text = t]_vars

----------------------------------------------------------------------------
(* The player of a voice note, lines 881-955.  The text of a note may hold *)
(* "*" and "_": the marks of an italic span.                               *)

\* text.replace(/\*[^*]+\*/g, ''): the spans between two marks, with at
\* least one character between them, are removed
RECURSIVE RemoveSpans(_, _, _)
RemoveSpans(t, mark, pos) ==
    LET o == IndexFrom(t, mark, pos)
        c == IF o = 0 THEN 0 ELSE IndexFrom(t, mark, o + 1)
    IN  IF o = 0 \/ c = 0 THEN SubSeq(t, pos, Len(t))
        ELSE IF c = o + 1 THEN SubSeq(t, pos, o) \o RemoveSpans(t, mark, o + 1)
        ELSE SubSeq(t, pos, o - 1) \o RemoveSpans(t, mark, c + 1)

\* text.replace(/\s{2,}/g, ' ')
RECURSIVE Collapse(_)
Collapse(t) ==
    IF Len(t) < 2 THEN t
    ELSE IF t[1] = "s" /\ t[2] = "s" THEN Collapse(Tail(t))
    ELSE <<t[1]>> \o Collapse(Tail(t))

\* lines 702-708
cleanVnTextForTts(text) ==
    Trim(Collapse(RemoveSpans(RemoveSpans(text, "*", 1), "_", 1)))

SpeakRequest(p, slot) == [pass |-> p, kind |-> "speak", slot |-> slot]

\* the click handler of a player with the promise of waitForTtsPlayback:
\* started is the flag of line 889, done says the promise is resolved,
\* timer says the safety timeout of line 907 is still set, ttsText is the
\* text of the /speak command of line 943
VoiceHandler(pc, m, n, done, ttsText) ==
    [pc |-> pc, msg |-> m, i |-> n, imgMatches |-> <<>>, attached |-> TRUE,
     loadingEl |-> 0, issued |-> <<>>, stale |-> FALSE,
     started |-> FALSE, done |-> done, timer |-> ~done, ttsText |-> ttsText]

\* the promises of waitForTtsPlayback whose listeners are on the audio
\* element
Waiters == { p \in Running : passes[p].pc \in {"speak", "playback", "leaked"}
                              /\ ~passes[p].done }

\* a variant of the busy flag that is never seen
Playing_Never(m, n) == FALSE

\* line 924: playBtn.hasClass('playing'), the class being on the button
\* from line 926 to line 951 of the handler of this button
Playing(m, n) ==
    \E p \in RunningOn(m) :
        /\ passes[p].pc \in {"speak", "playback"}
        /\ passes[p].i = n
        /\ passes[p].attached

\* lines 923-941: click on the play button of voice note n of message m, up
\* to the await of line 942; audio says #tts_audio is in the document
playClick(m, n, audio) ==
    /\ Editable(m, n)
    /\ LET key == <<"vn", n>>
           vnText == IF key \in DOMAIN chat[m].phoneMedia
                     THEN chat[m].phoneMedia[key].text ELSE <<>>
       IN  IF Playing(m, n) \/ vnText = <<>> \/ cleanVnTextForTts(vnText) = <<>>
           THEN UNCHANGED <<passes, requests>>
           ELSE /\ Free # {}
                /\ LET p == CHOOSE q \in Free : \A r \in Free : q <= r
                   IN  /\ passes' = [passes EXCEPT
                                       ![p] = VoiceHandler("speak", m, n, ~audio,
                                                           cleanVnTextForTts(vnText))]
                       /\ requests' = requests \cup { SpeakRequest(p, n) }
    /\ UNCHANGED <<chat, processedMessages, rendered, dom, genDone, generated>>

\* line 890: the audio element signals play
onPlay ==
    /\ \E p \in Waiters : ~passes[p].started
    /\ passes' = [p \in PassIds |->
                    IF p \in Waiters THEN [passes[p] EXCEPT !.started = TRUE]
                    ELSE passes[p]]
    /\ UNCHANGED <<chat, processedMessages, rendered, dom, requests, genDone,
                   generated>>

\* what is left of a handler once its promise is resolved: a handler that
\* has returned is gone with it
Resolved(rec) ==
    IF rec.pc = "leaked" THEN NoPass
    ELSE [rec EXCEPT !.done = TRUE, !.timer = FALSE]

\* lines 891-892: the audio element signals ended or error; every promise
\* that listens is resolved and its timeout cleared
onEnded ==
    /\ Waiters # {}
    /\ passes' = [p \in PassIds |->
                    IF p \in Waiters THEN Resolved(passes[p]) ELSE passes[p]]
    /\ UNCHANGED <<chat, processedMessages, rendered, dom, requests, genDone,
                   generated>>

\* a variant of the safety timeout that never resolves
TimeoutResolves_Never(started) == FALSE

\* line 908: if (!started) { cleanup(); resolve(); }
TimeoutResolves(started) == ~started

\* lines 907-909: the safety timeout fires
onTimeout(p) ==
    /\ p \in Waiters
    /\ passes[p].timer
    /\ passes' = [passes EXCEPT ![p] =
                    IF TimeoutResolves(passes[p].started) THEN Resolved(@)
                    ELSE [@ EXCEPT !.timer = FALSE]]
    /\ UNCHANGED <<chat, processedMessages, rendered, dom, requests, genDone,
                   generated>>

\* a variant without the finally block: after a rejection the button keeps
\* its class until the playback promise is resolved
SpeakSettled_NoFinally(p, result) ==
    /\ p \in Running
    /\ passes[p].pc = "speak"
    /\ SpeakRequest(p, passes[p].i) \in requests
    /\ requests' = requests \ { SpeakRequest(p, passes[p].i) }
    /\ passes' = [passes EXCEPT ![p].pc = "playback"]
    /\ UNCHANGED <<chat, processedMessages, rendered, dom, genDone, generated>>

\* lines 942-952: /speak settles.  Resolved, the handler awaits the promise
\* of waitForTtsPlayback; rejected, it returns through catch and finally
\* and leaves the promise, its listeners and its timeout behind
SpeakSettled(p, result) ==
    /\ p \in Running
    /\ passes[p].pc = "speak"
    /\ SpeakRequest(p, passes[p].i) \in requests
    /\ requests' = requests \ { SpeakRequest(p, passes[p].i) }
    /\ passes' = [passes EXCEPT ![p] =
                    IF result = "resolved" THEN [@ EXCEPT !.pc = "playback"]
                    ELSE IF @.done THEN NoPass
                    ELSE [@ EXCEPT !.pc = "leaked"]]
    /\ UNCHANGED <<chat, processedMessages, rendered, dom, genDone, generated>>

\* lines 946-952: the awaited promise is resolved and the handler returns
\* through finally
PlaybackDone(p) ==
    /\ p \in Running
    /\ passes[p].pc = "playback"
    /\ passes[p].done
    /\ passes' = [passes EXCEPT ![p] = NoPass]
    /\ UNCHANGED <<chat, processedMessages, rendered, dom, requests, genDone,
                   generated>>

\* a chat whose first message holds two voice notes, handled in an earlier
\* session or new; the second note is an italic span only
VoiceText == <<"VO", "v", "VC", "VO", "*", "l", "*", "VC">>

VoiceMessages ==
    { Message(<<FALSE, FALSE>>, VoiceText, NoMedia),
      Message(<<FALSE, FALSE>>, VoiceText,
              Put(Put(NoMedia, <<"vn", 0>>, VoiceRecord(<<"v">>)),
                  <<"vn", 1>>, VoiceRecord(<<"*", "l", "*">>))),
      Message(<<FALSE, FALSE>>, <<"VO", "v", "VC", "VO", "w", "VC">>, NoMedia) }

InitVoice ==
    /\ \E w \in VoiceMessages :
          chat = [m \in MsgIds |->
                    IF m = 0 THEN w ELSE Message(<<FALSE, FALSE>>, <<>>, NoMedia)]
    /\ generated = MaxGenerated
    /\ processedMessages = {}
    /\ rendered = FALSE
    /\ dom = [m \in MsgIds |-> <<>>]
    /\ passes = [p \in PassIds |-> NoPass]
    /\ requests = {}
    /\ genDone = [m \in MsgIds |-> FALSE]

NextVoice ==
    \/ \E m \in MsgIds : onCharacterMessageRendered(m)
    \/ \E p \in PassIds : SaveSettled(p)
    \/ CHAT_CHANGED
    \/ HostRenders
    \/ \E m \in MsgIds, n \in 0 .. 1, audio \in BOOLEAN : playClick(m, n, audio)
    \/ onPlay
    \/ onEnded
    \/ \E p \in PassIds : onTimeout(p)
    \/ \E p \in PassIds, r \in {"resolved", "rejected"} : SpeakSettled(p, r)
    \/ \E p \in PassIds : PlaybackDone(p)

SpecVoice == InitVoice /\ [][NextVoice]_vars

\* the timeout fires, a resumed handler runs, and an audio element that
\* has signalled play comes to signal ended or error
AudioStops == (\E p \in Waiters : passes[p].started) /\ onEnded

FairVoice ==
    /\ \A p \in PassIds : WF_vars(onTimeout(p)) /\ WF_vars(PlaybackDone(p))
    /\ WF_vars(AudioStops)

\* the players of the message that was handled in an earlier session
InitPlayers ==
    /\ chat = [m \in MsgIds |->
                 IF m = 0
                 THEN Message(<<FALSE, FALSE>>, VoiceText,
                              Put(Put(NoMedia, <<"vn", 0>>, VoiceRecord(<<"v">>)),
                                  <<"vn", 1>>, VoiceRecord(<<"*", "l", "*">>)))
                 ELSE Message(<<FALSE, FALSE>>, <<>>, NoMedia)]
    /\ generated = MaxGenerated
    /\ processedMessages = {}
    /\ rendered = FALSE
    /\ dom = [m \in MsgIds |-> <<>>]
    /\ passes = [p \in PassIds |-> NoPass]
    /\ requests = {}
    /\ genDone = [m \in MsgIds |-> FALSE]

NextPlayers ==
    \/ \E m \in MsgIds : onCharacterMessageRendered(m)
    \/ CHAT_CHANGED
    \/ HostRenders
    \/ \E m \in MsgIds, n \in 0 .. 1, audio \in BOOLEAN : playClick(m, n, audio)
    \/ onPlay
    \/ onEnded
    \/ \E p \in PassIds : onTimeout(p)
    \/ \E p \in PassIds, r \in {"resolved", "rejected"} : SpeakSettled(p, r)
    \/ \E p \in PassIds : PlaybackDone(p)

SpecVoiceLive == InitPlayers /\ [][NextPlayers]_vars /\ FairVoice

----------------------------------------------------------------------------
(* C21 *)

\* the playback of the player of voice note n of message m is in progress:
\* a handler of this button has accepted a click and has not returned
InProgress(m, n) ==
    \E p \in RunningOn(m) :
        /\ passes[p].pc \in {"speak", "playback"}
        /\ passes[p].i = n
        /\ passes[p].attached

\* the /speak calls outstanding for the player of voice note n of message m
SpeakingOn(m, n) ==
    { r \in requests : /\ r.kind = "speak"
                       /\ r.slot = n
                       /\ passes[r.pass].msg = m
                       /\ passes[r.pass].attached }

\* C21: at most one /speak call of a player is outstanding, and a /speak
\* call is issued only by a click on a play button whose playback is not
\* in progress: never by a click during the playback, never by a pass of
\* onCharacterMessageRendered.
C21_OneSpeechPerWidget ==
    /\ [](\A m \in MsgIds : \A n \in 0 .. 1 : Cardinality(SpeakingOn(m, n)) <= 1)
    /\ [][\A r \in requests' \ requests :
            r.kind = "speak"
               => \E m \in MsgIds :
                     /\ ~InProgress(m, r.slot)
                     /\ \E audio \in BOOLEAN : playClick(m, r.slot, audio)]_vars

\* the two players of one message are both in progress, the first one
\* waiting for the end of its playback
C21_Witness ==
    \E p \in Running : \E q \in Running :
        /\ passes[p].pc = "playback" /\ passes[p].attached /\ passes[p].i = 0
        /\ passes[q].pc = "speak" /\ passes[q].attached /\ passes[q].i = 1
        /\ passes[p].msg = passes[q].msg

----------------------------------------------------------------------------
(* C22 *)

\* C22: a handler whose /speak call has resolved returns, and with it the
\* indicator of its player goes back to idle: when the audio element
\* signals ended or error, or, the play signal never coming, when the
\* safety timeout fires.
C22_PlaybackEnds ==
    \A p \in PassIds : (passes[p].pc = "playback") ~> (passes[p].pc # "playback")

\* the /speak call has resolved and the handler waits for the playback: no
\* play signal has come, and the timeout is still set
C22_Witness ==
    \E p \in Running :
        /\ passes[p].pc = "playback"
        /\ ~passes[p].started
        /\ ~passes[p].done
        /\ passes[p].timer

----------------------------------------------------------------------------
(* C23 *)

\* C23: when /speak rejects, the handler returns: the playback of its
\* player is no longer in progress, so that the next click on it is
\* accepted, and no record and no text has changed.
C23_SpeechFailure ==
    [][\A p \in PassIds :
         (passes[p].pc = "speak" /\ SpeakSettled(p, "rejected"))
            => /\ chat' = chat
               /\ passes'[p].pc \notin {"speak", "playback"}
               /\ \A m \in MsgIds : \A n \in 0 .. 1 :
                     (passes[p].attached /\ passes[p].msg = m /\ passes[p].i = n)
                        => InProgress(m, n) /\ ~InProgress(m, n)']_vars

\* a /speak call of a player was rejected, its promise of
\* waitForTtsPlayback is left behind, and a later click on the same player
\* has been accepted
C23_Witness ==
    \E p \in Running : \E q \in Running :
        /\ passes[p].pc = "leaked"
        /\ passes[q].pc = "speak" /\ passes[q].attached
        /\ passes[q].msg = passes[p].msg /\ passes[q].i = passes[p].i
        /\ SpeakRequest(q, passes[q].i) \in requests

----------------------------------------------------------------------------
(* C24 *)

\* the nodes of slot k in a tree
NodesOfSlot(nodes, k) == { i \in 1 .. Len(nodes) : nodes[i].slot = k }

\* the tag with index k (from one) of the matches is empty after trimming
\* and has got nothing in this step: no record it did not have, no node
NothingFor(m, kind, matches) ==
    \A k \in 1 .. Len(matches) :
        matches[k] = <<>>
           => /\ <<kind, k - 1>> \in DOMAIN chat'[m].phoneMedia
                    => <<kind, k - 1>> \in DOMAIN chat[m].phoneMedia
              /\ \A i \in 1 .. Len(dom'[m]) :
                    (dom'[m][i].slot = k - 1 /\ i > Len(dom[m]))
                       => dom'[m][i].t \notin
                             (IF kind = "vn" THEN {"vn"}
                              ELSE {"img", "loading", "failed"})

\* C24: an image or voice tag whose content is empty after trimming gets
\* nothing in a first-generation pass: no /imagine call is issued for it,
\* and neither the step that starts the pass nor a step that goes on with
\* it after /imagine has settled adds a widget or a record for it.
C24_EmptyTagsSkipped ==
    [][/\ \A r \in requests' \ requests :
             r.kind = "imagine"
                => passes'[r.pass].imgMatches[r.slot + 1] # <<>>
       /\ \A m \in MsgIds :
             (m \notin processedMessages /\ m \in processedMessages'
                /\ ModeOf(m) = "NeedsFirstGeneration")
                => /\ NothingFor(m, "vn", MatchAll(chat[m].mes, "VO", "VC"))
                   /\ NothingFor(m, "img", MatchAll(chat[m].mes, "IO", "IC"))
       /\ \A p \in PassIds :
             (/\ passes[p].pc = "imagine"
              /\ ImagineRequest(p, passes[p].i - 1) \in requests
              /\ ImagineRequest(p, passes[p].i - 1) \notin requests')
                => NothingFor(passes[p].msg, "img", passes[p].imgMatches)]_vars

\* a pass over a text whose first image tag is empty has asked for the
\* second image, and the message has no widget and no record of slot 0
C24_Witness ==
    \E p \in Running :
        /\ passes[p].pc = "imagine"
        /\ passes[p].attached
        /\ Len(passes[p].imgMatches) = 2
        /\ passes[p].imgMatches[1] = <<>>
        /\ ImagineRequest(p, 1) \in requests
        /\ NodesOfSlot(dom[passes[p].msg], 0) = {}
        /\ <<"img", 0>> \notin DOMAIN chat[passes[p].msg].phoneMedia

----------------------------------------------------------------------------
(* Placeholders: a message that is rendered with divs the character's      *)
(* markup has left in it, some carrying a data attribute, some only the    *)
(* emoji, some neither kind the pass looks for.                            *)

MaxDivs == 3    \* divs in the rendered message

\* a div with a data attribute or with an emoji, and a div with an emoji
\* inside a div that holds nothing else
DivKinds ==
    { <<Div("img", 0, "none")>>, <<Div("img", 1, "none")>>,
      <<Div("vn", 0, "none")>>,
      <<Div("none", -1, "img")>>, <<Div("none", -1, "vn")>>,
      <<Outer, Div("none", -1, "img")>>, <<Outer, Div("none", -1, "vn")>> }

\* the sequences of at most n of them
RECURSIVE Layouts(_)
Layouts(n) ==
    IF n = 0 THEN { <<>> }
    ELSE Layouts(n - 1) \cup { l \o d : l \in Layouts(n - 1), d \in DivKinds }

PlaceMessages ==
    { Message(<<FALSE, FALSE>>, <<"x">>,
              Put(Put(NoMedia, <<"img", 0>>, ImageRecord("u1", <<"a">>)),
                  <<"img", 1>>, ImageRecord("u1", <<"b">>))),
      Message(<<FALSE, FALSE>>, <<"x">>,
              Put(NoMedia, <<"img", 5>>, ImageRecord("u1", <<"a">>))),
      Message(<<FALSE, FALSE>>, <<"VO", "v", "VC", "VO", "w", "VC">>,
              Put(Put(NoMedia, <<"vn", 0>>, VoiceRecord(<<"v">>)),
                  <<"vn", 1>>, VoiceRecord(<<"w">>))),
      Message(<<FALSE, FALSE>>, <<"VO", "v", "VC", "VO", "w", "VC">>, NoMedia),
      Message(<<FALSE, FALSE>>, <<"IO", "a", "IC", "IO", "b", "IC">>, NoMedia),
      \* what a pass over [IMG]a[/IMG][VN] [/VN] has left
      Message(<<FALSE, FALSE>>, <<"VO", "s", "VC">>,
              Put(NoMedia, <<"img", 0>>, ImageRecord("u1", <<"a">>))),
      \* prompts that hold the emoji of a placeholder
      Message(<<FALSE, FALSE>>, <<"x">>,
              Put(Put(NoMedia, <<"img", 0>>, ImageRecord("u1", <<"cam">>)),
                  <<"img", 1>>, ImageRecord("u1", <<"b">>))),
      Message(<<FALSE, FALSE>>, <<"VO", "v", "VC">>,
              Put(Put(NoMedia, <<"img", 0>>, ImageRecord("u1", <<"tri">>)),
                  <<"vn", 0>>, VoiceRecord(<<"v">>))) }

InitPlace ==
    /\ \E w \in PlaceMessages :
          chat = [m \in MsgIds |->
                    IF m = 0 THEN w ELSE Message(<<FALSE, FALSE>>, <<>>, NoMedia)]
    /\ \E l \in Layouts(MaxDivs) : dom = [m \in MsgIds |-> IF m = 0 THEN l ELSE <<>>]
    /\ generated = MaxGenerated
    /\ processedMessages = {}
    /\ rendered = TRUE
    /\ passes = [p \in PassIds |-> NoPass]
    /\ requests = {}
    /\ genDone = [m \in MsgIds |-> FALSE]

NextPlace ==
    \/ \E m \in MsgIds : onCharacterMessageRendered(m)
    \/ \E p \in PassIds, r \in Urls \cup {"none"} : ImagineSettled(p, r)
    \/ \E p \in PassIds : SaveSettled(p)

SpecPlace == InitPlace /\ [][NextPlace]_vars

----------------------------------------------------------------------------
(* C25 *)

\* how many nodes of the tree have the kind and the slot of node
Count(nodes, node) ==
    Cardinality({ i \in 1 .. Len(nodes) :
                    nodes[i].t = node.t /\ nodes[i].slot = node.slot })

\* the step has put exactly one node of this kind and slot into the tree of
\* message m, and no node that the tree held stands behind it when nothing
\* in the tree is a placeholder of the kind and no image of the message
\* shows the emoji of the kind
InsertedOne(m, kind, slot, node) ==
    /\ Count(dom'[m], node) = Count(dom[m], node) + 1
    /\ (/\ \A i \in 1 .. Len(dom[m]) :
               dom[m][i].t = "div" => dom[m][i].attr # kind /\ dom[m][i].text # kind
         /\ \A k \in DOMAIN chat[m].phoneMedia :
               k[1] = "img" => EmojiOf(chat[m].phoneMedia[k].prompt) # kind)
          => \E i \in 1 .. Len(dom'[m]) :
                /\ dom'[m][i].t = node.t /\ dom'[m][i].slot = node.slot
                /\ \A j \in (i + 1) .. Len(dom'[m]) :
                      Count(dom[m], dom'[m][j]) = 0

----------------------------------------------------------------------------
(* C26 *)

\* no div of the tree carries the data attribute of the kind with the index
NoMarker(nodes, kind, index) ==
    \A i \in 1 .. Len(nodes) :
        nodes[i].t = "div" => ~(nodes[i].attr = kind /\ nodes[i].slot = index)

\* C26: with no node carrying the marker, findPlaceholder takes the
\* candidate at the position of the index: of two candidates the second for
\* index 1, and of three candidates the last for index 5.
C26_FallbackByPosition ==
    \A m \in MsgIds : \A kind \in {"img", "vn"} :
        /\ (Len(Candidates(dom[m], kind)) = 2 /\ NoMarker(dom[m], kind, 1))
              => findPlaceholder(dom[m], kind, 1) = Candidates(dom[m], kind)[2]
        /\ (Len(Candidates(dom[m], kind)) = 3 /\ NoMarker(dom[m], kind, 5))
              => findPlaceholder(dom[m], kind, 5) = Candidates(dom[m], kind)[3]

----------------------------------------------------------------------------
(* C28 *)

\* the positions of the markers of one kind in t, in document order
MarkersOf(t, open, close) ==
    Ascending({ i \in 1 .. Len(t) : t[i] \in {open, close} })

\* t holds well-formed pairs of the kind and nothing else of it: its
\* markers are an open one, a close one, an open one, a close one, ...
WellFormed(t, open, close) ==
    LET mk == MarkersOf(t, open, close)
    IN  /\ Len(mk) % 2 = 0
        /\ \A j \in 1 .. Len(mk) : t[mk[j]] = (IF j % 2 = 1 THEN open ELSE close)

\* the trimmed content of the pairs of a well-formed text
ContentsOf(t, open, close) ==
    LET mk == MarkersOf(t, open, close)
    IN  [j \in 1 .. (Len(mk) \div 2) |->
            Trim(SubSeq(t, mk[2 * j - 1] + 1, mk[2 * j] - 1))]

\* C28: the extraction of one kind from a text of N well-formed pairs
\* gives N matches in document order, match i with the trimmed content of
\* pair i; an open marker with no close marker after it gives no match
\* from there on, so the matches are those of the text before it.  A
\* first-generation pass works on these matches.
C28_Extraction ==
    /\ [](\A m \in MsgIds :
            \A kind \in { <<"IO", "IC">>, <<"VO", "VC">> } :
               /\ WellFormed(chat[m].mes, kind[1], kind[2])
                     => MatchAll(chat[m].mes, kind[1], kind[2])
                           = ContentsOf(chat[m].mes, kind[1], kind[2])
               /\ \A i \in 1 .. Len(chat[m].mes) :
                     (/\ chat[m].mes[i] = kind[1]
                      /\ \A j \in (i + 1) .. Len(chat[m].mes) :
                            chat[m].mes[j] # kind[2])
                        => MatchAll(chat[m].mes, kind[1], kind[2])
                              = MatchAll(SubSeq(chat[m].mes, 1, i - 1),
                                         kind[1], kind[2]))
    /\ [][\A m \in MsgIds :
            (m \notin processedMessages /\ m \in processedMessages'
               /\ ModeOf(m) = "NeedsFirstGeneration"
               /\ WellFormed(chat[m].mes, "IO", "IC"))
               => \E p \in PassIds :
                     /\ passes[p] = NoPass /\ passes'[p] # NoPass
                     /\ passes'[p].imgMatches
                           = ContentsOf(chat[m].mes, "IO", "IC")]_vars

\* a pass works on the two matches of a text of two image pairs, the second
\* one empty
C28_Witness ==
    \E p \in Running :
        /\ passes[p].pc = "imagine"
        /\ passes[p].imgMatches = << <<"a">>, <<>> >>

----------------------------------------------------------------------------
(* The loop of stripTagsFromDOM iteration by iteration, over trees of text *)
(* nodes.  The elements around the text nodes hold no text of their own,   *)
(* and the text is spread over up to three nodes.                          *)

MaxDomLen == 5      \* tokens of the text of the rendered message
MaxIter == 3        \* iterations of the while (true) loop in one call

DomTokens == { "IO", "IC", "VO", "VC", "I1", "I2", "a" }


\* the texts of at most MaxDomLen tokens
DomTexts == UNION { [1 .. n -> DomTokens] : n \in 0 .. MaxDomLen }

\* the text t in up to three text nodes: cut after c1 and after c2 tokens
TreeOf(t, c1, c2) ==
    SelectSeq(<< TextNode(SubSeq(t, 1, c1)), TextNode(SubSeq(t, c1 + 1, c2)),
                 TextNode(SubSeq(t, c2 + 1, Len(t))) >>,
              LAMBDA n : n.val # <<>>)

\* a call of stripTagsFromDOM on the tree of message m: i is the tag of the
\* for loop, iter counts the iterations of the call, run the calls
StripCall(m, tag, iter, run) ==
    [pc |-> "strip", msg |-> m, i |-> tag, imgMatches |-> <<>>,
     attached |-> TRUE, loadingEl |-> 0, issued |-> <<>>, stale |-> FALSE,
     iter |-> iter, run |-> run]

\* lines 656-692: one iteration of the while (true) loop, or, at its break,
\* the step to the next tag or the return
stripTagsFromDOM(p) ==
    /\ p \in Running
    /\ passes[p].pc = "strip"
    /\ LET m == passes[p].msg
           tag == passes[p].i
       IN  IF OpenNode(dom[m], tag) # 0 /\ CloseNode(dom[m], tag) # 0
           THEN /\ passes[p].iter < MaxIter
                /\ dom' = [dom EXCEPT ![m] = DeleteRange(@, tag)]
                /\ passes' = [passes EXCEPT ![p].iter = @ + 1]
           ELSE /\ passes' = [passes EXCEPT
                                ![p].i = IF tag = 1 THEN 2 ELSE tag,
                                ![p].pc = IF tag = 1 THEN "strip" ELSE "stripped"]
                /\ UNCHANGED dom
    /\ UNCHANGED <<chat, processedMessages, rendered, requests, genDone, generated>>

\* stripTagsFromDOM is applied to the tree it has left
stripAgain(p) ==
    /\ p \in Running
    /\ passes[p].pc = "stripped"
    /\ passes[p].run = 1
    /\ passes' = [passes EXCEPT ![p] = StripCall(passes[p].msg, 1, 0, 2)]
    /\ UNCHANGED <<chat, processedMessages, rendered, dom, requests, genDone,
                   generated>>

InitStrip ==
    /\ \E t \in DomTexts : \E c1 \in 0 .. Len(t) : \E c2 \in c1 .. Len(t) :
          dom = [m \in MsgIds |-> IF m = 0 THEN TreeOf(t, c1, c2) ELSE <<>>]
    /\ chat = [m \in MsgIds |-> Message(<<FALSE, FALSE>>, <<>>, NoMedia)]
    /\ passes = [p \in PassIds |-> IF p = 1 THEN StripCall(0, 1, 0, 1) ELSE NoPass]
    /\ generated = MaxGenerated
    /\ processedMessages = {}
    /\ rendered = TRUE
    /\ requests = {}
    /\ genDone = [m \in MsgIds |-> FALSE]

NextStrip ==
    \/ \E p \in PassIds : stripTagsFromDOM(p)
    \/ \E p \in PassIds : stripAgain(p)

SpecStrip == InitStrip /\ [][NextStrip]_vars

----------------------------------------------------------------------------
(* C27 *)

\* the text after is the text before without one span that runs from an
\* open marker of the tag through the first close marker behind it
SpanRemoved(before, after, tag) ==
    \E a \in 1 .. Len(before) : \E b \in (a + 1) .. Len(before) :
        /\ \/ before[a] = OpenPattern(tag)
           \/ tag = 1 /\ before[a] = "I1" /\ before[a + 1] = "I2"
        /\ before[b] = ClosePattern(tag)
        /\ \A j \in (a + 1) .. (b - 1) : before[j] # ClosePattern(tag)
        /\ after = SubSeq(before, 1, a - 1) \o SubSeq(before, b + 1, Len(before))

\* C27: an iteration of stripTagsFromDOM that changes the tree removes the
\* text from an open marker through its close marker, whatever nodes the
\* span crosses, and leaves the text outside the span as it was; and the
\* function applied to the tree it has left changes nothing.
C27_StripExactIdempotent ==
    [][\A p \in PassIds :
         (passes[p].pc = "strip" /\ stripTagsFromDOM(p))
            => /\ dom' # dom
                    => SpanRemoved(Flat(dom[passes[p].msg]),
                                   Flat(dom'[passes[p].msg]), passes[p].i)
               /\ passes[p].run = 2 => dom' = dom]_vars

----------------------------------------------------------------------------
(* C29 *)

\* C29: every iteration of the while (true) loop that has found an open
\* and a close node removes a marker pair: the text of the tree loses at
\* least the two markers.
C29_IterationRemovesPair ==
    [][\A p \in PassIds :
         (/\ passes[p].pc = "strip"
          /\ stripTagsFromDOM(p)
          /\ passes'[p].iter = passes[p].iter + 1)
            => Len(Flat(dom'[passes[p].msg])) + 2 <= Len(Flat(dom[passes[p].msg]))]_vars

----------------------------------------------------------------------------
(* C30 *)

\* C30: once the passes on a message are over, the arrows of every image
\* container work on the record of the slot whose image the container
\* shows: the container with DOM index c, whose handlers read
\* phoneMedia[c], shows the image of slot c.
C30_HandlersOnOwnRecord ==
    \A m \in MsgIds :
        (rendered /\ m \in processedMessages /\ RunningOn(m) = {})
           => \A c \in 0 .. (Len(Containers(m)) - 1) :
                 /\ Clickable(m, c)
                 /\ Containers(m)[c + 1].slot = c

----------------------------------------------------------------------------
(* C31 *)

\* C31: every voice player in the tree of a message has click handlers,
\* and they are the handlers of the record of its own slot: the player
\* inserted for slot i plays and edits vn i, also when an earlier voice tag
\* was empty and when the placeholders stand in another order than the
\* tags.
C31_PlayerBoundToOwnSlot ==
    \A m \in MsgIds :
        \A i \in 1 .. Len(dom[m]) :
            dom[m][i].t = "vn" => dom[m][i].bound = dom[m][i].slot

----------------------------------------------------------------------------
(* C32 *)

\* the record with key k has a widget in the tree: an image container of
\* its slot, or a voice player of its slot
HasWidget(nodes, k) ==
    \E i \in 1 .. Len(nodes) : nodes[i].t = k[1] /\ nodes[i].slot = k[2]

\* C32: when a pass over a message ends with the id of the message in
\* processedMessages (a restore pass, or a first-generation pass whose
\* tree is still the tree of the message), every record persisted for the
\* message has a widget in the rendered message.
C32_RecordsHaveWidgets ==
    [][/\ \A m \in MsgIds :
             (m \notin processedMessages /\ ModeOf(m) = "RestoreOnly"
                /\ onCharacterMessageRendered(m))
                => \A k \in DOMAIN chat'[m].phoneMedia : HasWidget(dom'[m], k)
       /\ \A p \in PassIds :
             (passes[p].pc = "save" /\ passes[p].attached /\ SaveSettled(p)
                /\ passes[p].msg \in processedMessages')
                => \A k \in DOMAIN chat'[passes[p].msg].phoneMedia :
                       HasWidget(dom'[passes[p].msg], k)]_vars

----------------------------------------------------------------------------
(* C33 *)

\* C33: a response of /imagine that arrives after the message of its pass
\* was swiped creates no record on the message and renders nothing.
\* Stated for the responses that arrive once a pass over the regenerated
\* content has begun, so that the message holds a phoneMedia map.
C33_StaleResponseDropped ==
    [][\A p \in PassIds : \A u \in Urls :
         (/\ passes[p].pc = "imagine" /\ passes[p].stale
          /\ passes[p].msg \in processedMessages
          /\ ImagineSettled(p, u))
            => /\ chat'[passes[p].msg].phoneMedia = chat[passes[p].msg].phoneMedia
               /\ dom' = dom]_vars

----------------------------------------------------------------------------
(* The pass over a message as the host has rendered it: the tree holds the *)
(* text of the message, markers included, in up to three text nodes, and   *)
(* up to MaxHoles divs of the character's markup between them.             *)

MaxHoles == 2       \* divs in the rendered message

\* texts with markers in upper case, and one with a voice tag in lower case
OrderTexts ==
    { <<"x", "VO", "v", "VC">>,
      <<"VO", "v", "VC", "VO", "w", "VC">>,
      <<"IO", "a", "IC", "VO", "v", "VC">>,
      <<"x", "vo", "v", "vc">> }

\* new messages, and a message that was handled in an earlier session
OrderMessages ==
    { Message(<<FALSE, FALSE>>, t, NoMedia) : t \in OrderTexts }
    \cup
    { Message(<<FALSE, FALSE>>, <<"x", "VO", "v", "VC">>,
              Put(Put(NoMedia, <<"img", 0>>, ImageRecord("u1", <<"a">>)),
                  <<"vn", 0>>, VoiceRecord(<<"v">>))) }

HoleKinds ==
    { Div("vn", 0, "none"), Div("none", -1, "vn"), Div("img", 0, "none") }

InsertAt(nodes, pos, d) ==
    SubSeq(nodes, 1, pos) \o <<d>> \o SubSeq(nodes, pos + 1, Len(nodes))

\* the trees of the text t with n more divs
RECURSIVE Holes(_, _)
Holes(t, n) ==
    IF n = 0
    THEN { TreeOf(t, c[1], c[2]) :
             c \in { x \in (0 .. Len(t)) \X (0 .. Len(t)) : x[1] <= x[2] } }
    ELSE UNION { { InsertAt(nodes, pos, d) : pos \in 0 .. Len(nodes), d \in HoleKinds } :
                   nodes \in Holes(t, n - 1) }

OrderTrees(t) == UNION { Holes(t, n) : n \in 0 .. MaxHoles }

InitOrder ==
    /\ \E w \in OrderMessages :
          /\ chat = [m \in MsgIds |->
                       IF m = 0 THEN w ELSE Message(<<FALSE, FALSE>>, <<>>, NoMedia)]
          /\ \E tree \in OrderTrees(w.mes) :
                dom = [m \in MsgIds |-> IF m = 0 THEN tree ELSE <<>>]
    /\ generated = MaxGenerated
    /\ processedMessages = {}
    /\ rendered = TRUE
    /\ passes = [p \in PassIds |-> NoPass]
    /\ requests = {}
    /\ genDone = [m \in MsgIds |-> FALSE]

NextOrder ==
    \/ \E m \in MsgIds : onCharacterMessageRendered(m)
    \/ \E p \in PassIds, r \in Urls \cup {"none"} : ImagineSettled(p, r)
    \/ \E p \in PassIds : SaveSettled(p)

SpecOrder == InitOrder /\ [][NextOrder]_vars

----------------------------------------------------------------------------
(* C34 *)

\* C34: the step that starts a pass strips the tree once and before it
\* looks for placeholders and inserts widgets: the text it leaves is the
\* text one call of stripTagsFromDOM leaves, what it leaves of the other
\* nodes are nodes the call left, and no widget of the pass is lost to the
\* deletion: every non-empty voice tag (first generation) and every record
\* (restore) has its widget in the tree.
C34_StripOnceBeforeWidgets ==
    [][\A m \in MsgIds :
         (m \notin processedMessages /\ m \in processedMessages')
            => /\ Flat(dom'[m]) = Flat(StripTree(dom[m]))
               /\ \A i \in 1 .. Len(dom'[m]) :
                     dom'[m][i].t \in {"text", "div"}
                        => \E j \in 1 .. Len(StripTree(dom[m])) :
                              StripTree(dom[m])[j] = dom'[m][i]
               /\ IF ModeOf(m) = "RestoreOnly"
                  THEN \A k \in DOMAIN chat[m].phoneMedia : HasWidget(dom'[m], k)
                  ELSE \A i \in VnSlots(MatchAll(chat[m].mes, "VO", "VC")) :
                          HasWidget(dom'[m], <<"vn", i - 1>>)]_vars

\* a pass has run over a message whose text holds a voice tag: the tree
\* holds text, none of it a voice marker, and the player of the tag, and
\* no div: the placeholders that stood between the markers went with the
\* span or were replaced
C34_Witness ==
    /\ 0 \in processedMessages
    /\ HasOpen(chat[0].mes, "VO")
    /\ Flat(dom[0]) = <<"x">>
    /\ HasWidget(dom[0], <<"vn", 0>>)
    /\ \A i \in 1 .. Len(dom[0]) : dom[0][i].t # "div"

----------------------------------------------------------------------------
(* C37 *)

\* C37: the step that starts a pass leaves no tag pair in the text of the
\* rendered message that the extraction recognises, the markers read in
\* either case as the regular expressions read them.
C37_RecognisedPairsRemoved ==
    [][\A m \in MsgIds :
         (m \notin processedMessages /\ m \in processedMessages')
            => /\ PairsOf(Flat(dom'[m]), "IO", "IC") = <<>>
               /\ PairsOf(Flat(dom'[m]), "VO", "VC") = <<>>]_vars

----------------------------------------------------------------------------
(* C35 *)

\* the positions a sequence holds
Range(seq) == { seq[i] : i \in 1 .. Len(seq) }

\* C35: when a div and the div it holds both contain the emoji of a kind,
\* the inner div is a candidate of the content fallback and the outer div
\* is none: findPlaceholder gives the outer div for no slot index.
C35_InnermostCandidate ==
    \A m \in MsgIds : \A kind \in {"img", "vn"} :
        \A i \in 1 .. (Len(dom[m]) - 1) :
            (/\ dom[m][i].t = "outer"
             /\ dom[m][i + 1].t = "div" /\ dom[m][i + 1].text = kind)
                => /\ (i + 1) \in Range(Candidates(dom[m], kind))
                   /\ i \notin Range(Candidates(dom[m], kind))
                   /\ \A index \in 0 .. MaxDivs :
                         findPlaceholder(dom[m], kind, index) # i

----------------------------------------------------------------------------
(* C36 *)

\* C36: a lookup of a pass finds no node of a widget that was inserted,
\* whatever text the widget shows: no widget of the tree stands inside
\* another widget, in the place of a part of it.
C36_NoWidgetInsideWidget ==
    \A m \in MsgIds :
        \A i \in 1 .. Len(dom[m]) : "inside" \notin DOMAIN dom[m][i]

----------------------------------------------------------------------------
(* C38 *)

\* what the n-th voice pair of a text holds between its markers
PairContent(t, n) ==
    SubSeq(VnPairs(t)[n + 1], 2, Len(VnPairs(t)[n + 1]) - 1)

\* C38: for every voice note n of a message that has a record, the text of
\* the message has an n-th voice pair and what the pair holds, without the
\* whitespace around it, is the text of the record: after every
\* first-generation pass and after every Save of the editor.
C38_RecordMatchesText ==
    \A m \in MsgIds : \A n \in 0 .. 1 :
        <<"vn", n>> \in DOMAIN chat[m].phoneMedia
           => /\ n < Len(VnPairs(chat[m].mes))
              /\ Trim(PairContent(chat[m].mes, n))
                    = chat[m].phoneMedia[<<"vn", n>>].text

----------------------------------------------------------------------------
(* Save and Play, lines 1025-1031: the handler awaits saveVnText and then  *)
(* triggers the click of the play button of its wrapper.                   *)

\* playBtn.hasClass('playing') for the button the handler holds: the
\* button of the tree, or the button of a tree that is gone
Busy(m, n, attached) ==
    IF attached THEN Playing(m, n)
    ELSE \E q \in RunningOn(m) : /\ passes[q].pc \in {"speak", "playback"}
                                 /\ passes[q].i = n
                                 /\ ~passes[q].attached

\* lines 929-941 for a click that handler p has triggered: what becomes of
\* p, and the /speak call
Triggered(p, m, n, attached, audio) ==
    LET key == <<"vn", n>>
        vnText == IF key \in DOMAIN chat[m].phoneMedia
                  THEN chat[m].phoneMedia[key].text ELSE <<>>
        speaks == /\ ~Busy(m, n, attached)
                  /\ cleanVnTextForTts(vnText) # <<>>
    IN  /\ passes' = [passes EXCEPT ![p] =
                        IF speaks
                        THEN [VoiceHandler("speak", m, n, ~audio,
                                           cleanVnTextForTts(vnText))
                                 EXCEPT !.attached = attached]
                        ELSE NoPass]
        /\ requests' = (requests \ { SaveRequest(p) })
                          \cup (IF speaks THEN { SpeakRequest(p, n) } ELSE {})

\* lines 1025-1030: click on the Save and Play button.  saveVnText returns
\* at once when the textarea holds nothing but whitespace, and the click of
\* the play button is triggered in the same task
savePlayClick(m, vnIndex, typed, audio) ==
    IF Trim(typed) = <<>>
    THEN /\ Editable(m, vnIndex)
         /\ Free # {}
         /\ Triggered(CHOOSE q \in Free : \A r \in Free : q <= r,
                      m, vnIndex, TRUE, audio)
         /\ UNCHANGED <<chat, processedMessages, rendered, dom, genDone,
                        generated>>
    ELSE saveVnTextBy("vnSavePlay", m, vnIndex, typed)

\* lines 1017-1018 and 1028-1030: saveChatConditional settles, saveVnText
\* returns and the handler triggers the click of the play button
SavePlaySettled(p, audio) ==
    /\ p \in Running
    /\ passes[p].pc = "vnSavePlay"
    /\ SaveRequest(p) \in requests
    /\ Triggered(p, passes[p].msg, passes[p].i, passes[p].attached, audio)
    /\ UNCHANGED <<chat, processedMessages, rendered, dom, genDone, generated>>

\* the editor and the player of the voice notes of one message, with no
\* #tts_audio element in the document: waitForTtsPlayback resolves at once
\* (line 886)
SpeakTexts == { <<"b">>, <<"s">> }

SpeakMessages ==
    { Message(<<FALSE, FALSE>>, <<"VO", "v", "VC">>, NoMedia),
      Message(<<FALSE, FALSE>>, <<"VO", "v", "VC", "VO", "w", "VC">>,
              Put(Put(NoMedia, <<"vn", 0>>, VoiceRecord(<<"v">>)),
                  <<"vn", 1>>, VoiceRecord(<<"w">>))) }

InitSpeak ==
    /\ \E w \in SpeakMessages :
          chat = [m \in MsgIds |->
                    IF m = 0 THEN w ELSE Message(<<FALSE, FALSE>>, <<>>, NoMedia)]
    /\ generated = MaxGenerated
    /\ processedMessages = {}
    /\ rendered = FALSE
    /\ dom = [m \in MsgIds |-> <<>>]
    /\ passes = [p \in PassIds |-> NoPass]
    /\ requests = {}
    /\ genDone = [m \in MsgIds |-> FALSE]

NextSpeak ==
    \/ \E m \in MsgIds : onCharacterMessageRendered(m)
    \/ \E p \in PassIds : SaveSettled(p)
    \/ CHAT_CHANGED
    \/ HostRenders
    \/ \E m \in MsgIds, n \in 0 .. 1, t \in SpeakTexts : saveVnText(m, n, t)
    \/ \E p \in PassIds : VnSaveSettled(p)
    \/ \E m \in MsgIds, n \in 0 .. 1, t \in SpeakTexts :
          savePlayClick(m, n, t, FALSE)
    \/ \E p \in PassIds : SavePlaySettled(p, FALSE)
    \/ \E m \in MsgIds, n \in 0 .. 1 : playClick(m, n, FALSE)
    \/ \E p \in PassIds, r \in {"resolved", "rejected"} : SpeakSettled(p, r)
    \/ \E p \in PassIds : PlaybackDone(p)

SpecSpeak == InitSpeak /\ [][NextSpeak]_vars

----------------------------------------------------------------------------
(* C39 *)

\* the text of the record of voice note n of message m in the chat c
RecordText(c, m, n) ==
    IF <<"vn", n>> \in DOMAIN c[m].phoneMedia
    THEN c[m].phoneMedia[<<"vn", n>>].text ELSE <<>>

\* the step issues the /speak call of handler p
NewSpeak(p) == passes'[p].pc = "speak" /\ passes[p].pc # "speak"

\* every /speak call carries, cleaned for speech, the text the record of
\* its voice note holds in the step of the click; a click on the play
\* button that passes the tests of lines 924-939 issues one and leaves the
\* tree alone; Save stores the text and issues none
ClickTimeText ==
    /\ \A p \in PassIds :
          NewSpeak(p)
             => /\ passes'[p].ttsText
                     = cleanVnTextForTts(RecordText(chat', passes'[p].msg,
                                                    passes'[p].i))
                /\ SpeakRequest(p, passes'[p].i) \in requests'
    /\ \A m \in MsgIds : \A n \in 0 .. 1 : \A a \in BOOLEAN :
          (/\ playClick(m, n, a) /\ ~Playing(m, n)
           /\ cleanVnTextForTts(RecordText(chat, m, n)) # <<>>)
             => (\E p \in PassIds : NewSpeak(p)) /\ dom' = dom
    /\ \A m \in MsgIds : \A n \in 0 .. 1 : \A t \in SpeakTexts :
          saveVnText(m, n, t)
             => /\ \A p \in PassIds : ~NewSpeak(p)
                /\ Trim(t) # <<>> => RecordText(chat', m, n) = Trim(t)

\* Save and Play with a text that is not blank writes the record and the
\* text of the message in the step of the click
SavePlayWrites ==
    \A m \in MsgIds : \A n \in 0 .. 1 : \A t \in SpeakTexts : \A a \in BOOLEAN :
        (savePlayClick(m, n, t, a) /\ Trim(t) # <<>>)
           => /\ RecordText(chat', m, n) = Trim(t)
              /\ PairContent(chat'[m].mes, n) = Trim(t)

\* C39: a /speak call carries the text the record holds at the
\* click, Save issues none, and Save and Play issues its /speak call only
\* after it has written the record and the text: never in the step of its
\* own click.
C39_SpeechAfterUpdate ==
    [][/\ ClickTimeText
       /\ SavePlayWrites
       /\ \A m \in MsgIds : \A n \in 0 .. 1 : \A t \in SpeakTexts :
             \A a \in BOOLEAN :
                savePlayClick(m, n, t, a) => \A p \in PassIds : ~NewSpeak(p)]_vars

====
